---- MODULE Spec2Model ----
(***************************************************************************)
(* A model of the SigV4 library (source/sigv4.c): the date conversion      *)
(* SigV4_AwsIotDateToIso8601 and the signing call                          *)
(* SigV4_GenerateHTTPAuthorization.                                        *)
(*                                                                         *)
(* Characters are one-character strings; a C string is a sequence of them. *)
(***************************************************************************)
EXTENDS Integers, Sequences, FiniteSets, TLC

VARIABLES
    pc,        \* position of the caller / of the call in progress
    dFields,   \* the date the caller converts (year, month, ... as numbers)
    dReq,      \* arguments of the current SigV4_AwsIotDateToIso8601 call
    dRes,      \* status and output buffer of the last completed date call
    dHist,     \* completed date calls, oldest first: <<request, result>>
    params,    \* arguments of the SigV4_GenerateHTTPAuthorization call and the build's sizes
    mem        \* memory of the signing call: its locals and the caller's buffers

vars == <<pc, dFields, dReq, dRes, dHist, params, mem>>

(***************************************************************************)
(* Characters.                                                             *)
(***************************************************************************)

\* The printable ASCII characters in code order, starting at code 32.
Printable ==
    << " ", "!", "DQUOTE", "#", "$", "%", "&", "'", "(", ")", "*", "+", ",", "-", ".", "/",
       "0", "1", "2", "3", "4", "5", "6", "7", "8", "9", ":", ";", "<", "=", ">", "?",
       "@", "A", "B", "C", "D", "E", "F", "G", "H", "I", "J", "K", "L", "M", "N", "O",
       "P", "Q", "R", "S", "T", "U", "V", "W", "X", "Y", "Z", "[", "BSLASH", "]", "^", "_",
       "BQUOTE", "a", "b", "c", "d", "e", "f", "g", "h", "i", "j", "k", "l", "m", "n", "o",
       "p", "q", "r", "s", "t", "u", "v", "w", "x", "y", "z", "{", "|", "}", "~" >>

\* Names of the control characters the library distinguishes.
Control == << <<"NUL", 0>>, <<"\t", 9>>, <<"\n", 10>>, <<"VT", 11>>,
              <<"FF", 12>>, <<"\r", 13>> >>

Chars == { Printable[i] : i \in 1..Len(Printable) } \cup { Control[i][1] : i \in 1..Len(Control) }

\* The character code of c (ASCII).
CodeTable ==
    [ c \in Chars |->
        IF \E i \in 1..Len(Control) : Control[i][1] = c
        THEN Control[CHOOSE i \in 1..Len(Control) : Control[i][1] = c][2]
        ELSE 31 + (CHOOSE i \in 1..Len(Printable) : Printable[i] = c) ]

Code(c) == CodeTable[c]

\* The character with code n (printable range only).
Chr(n) == Printable[n - 31]

IsDigit(c) == Code(c) >= Code("0") /\ Code(c) <= Code("9")

SigV4Success == "SigV4Success"
SigV4InvalidParameter == "SigV4InvalidParameter"
SigV4InsufficientMemory == "SigV4InsufficientMemory"
SigV4ISOFormattingError == "SigV4ISOFormattingError"
SigV4MaxHeaderPairCountExceeded == "SigV4MaxHeaderPairCountExceeded"
SigV4MaxQueryPairCountExceeded == "SigV4MaxQueryPairCountExceeded"
SigV4HashError == "SigV4HashError"

(***************************************************************************)
(* Date conversion (sigv4.c, sigv4_internal.h).                            *)
(***************************************************************************)

YEAR_MIN == 1900
MONTH_ASCII_LEN == 3
MONTH_NAMES == << <<"J","a","n">>, <<"F","e","b">>, <<"M","a","r">>, <<"A","p","r">>,
                  <<"M","a","y">>, <<"J","u","n">>, <<"J","u","l">>, <<"A","u","g">>,
                  <<"S","e","p">>, <<"O","c","t">>, <<"N","o","v">>, <<"D","e","c">> >>
MONTH_DAYS == << 31, 28, 31, 30, 31, 30, 31, 31, 30, 31, 30, 31 >>
FORMAT_RFC_3339 ==
    << "%","4","Y","-","%","2","M","-","%","2","D","T","%","2","h",":","%","2","m",":","%","2","s","Z" >>
FORMAT_RFC_5322 ==
    << "%","3","*",","," ","%","2","D"," ","%","3","M"," ","%","4","Y"," ",
       "%","2","h",":","%","2","m",":","%","2","s"," ","G","M","T" >>
ISO_YEAR_LEN == 4
ISO_NON_YEAR_LEN == 2
SIGV4_ISO_STRING_LEN == 16
SIGV4_EXPECTED_LEN_RFC_3339 == 20
SIGV4_EXPECTED_LEN_RFC_5322 == 29

\* SigV4DateTime_t date = { 0 }
ZeroDate == [ tm_year |-> 0, tm_mon |-> 0, tm_mday |-> 0,
              tm_hour |-> 0, tm_min |-> 0, tm_sec |-> 0 ]

\* The write loop of intToAscii: digits right to left, zero filled.
RECURSIVE intToAsciiLoop(_, _, _)
intToAsciiLoop(currentVal, lenRemaining, buffer) ==
    IF lenRemaining > 0
    THEN intToAsciiLoop(currentVal \div 10, lenRemaining - 1,
                        [buffer EXCEPT ![lenRemaining] = Chr((currentVal % 10) + Code("0"))])
    ELSE buffer

\* A variant that writes the digits left to right (least significant first).
intToAsciiReversed(value, bufferLen) ==
    [ k \in 1..bufferLen |-> intToAsciiLoop(value, bufferLen, [j \in 1..bufferLen |-> "?"])[bufferLen + 1 - k] ]

\* intToAscii: the bufferLen characters written for value.
intToAscii(value, bufferLen) ==
    intToAsciiLoop(value, bufferLen, [k \in 1..bufferLen |-> "?"])

\* A variant that takes every fourth year for a leap year.
checkLeapJulian(d) ==
    IF d.tm_mon = 2 /\ d.tm_mday = 29 /\ (d.tm_year % 4) = 0
    THEN SigV4Success
    ELSE SigV4ISOFormattingError

checkLeap(d) ==
    IF d.tm_mon = 2 /\ d.tm_mday = 29
    THEN IF (d.tm_year % 400) # 0 /\ ((d.tm_year % 4) # 0 \/ (d.tm_year % 100) = 0)
         THEN SigV4ISOFormattingError
         ELSE SigV4Success
    ELSE SigV4ISOFormattingError

validateDateTime(d) ==
    LET s1 == IF d.tm_year < YEAR_MIN THEN SigV4ISOFormattingError ELSE SigV4Success
        s2 == IF d.tm_mon < 1 \/ d.tm_mon > 12 THEN SigV4ISOFormattingError ELSE s1
        s3 == IF s2 # SigV4ISOFormattingError
                 /\ (d.tm_mday < 1 \/ d.tm_mday > MONTH_DAYS[d.tm_mon])
              THEN checkLeap(d) ELSE s2
        s4 == IF d.tm_hour > 23 THEN SigV4ISOFormattingError ELSE s3
        s5 == IF d.tm_min > 59 THEN SigV4ISOFormattingError ELSE s4
        s6 == IF d.tm_sec > 60 THEN SigV4ISOFormattingError ELSE s5
    IN  s6

addToDate(formatChar, result, d) ==
    CASE formatChar = "Y" -> [d EXCEPT !.tm_year = result]
      [] formatChar = "M" -> [d EXCEPT !.tm_mon = result]
      [] formatChar = "D" -> [d EXCEPT !.tm_mday = result]
      [] formatChar = "h" -> [d EXCEPT !.tm_hour = result]
      [] formatChar = "m" -> [d EXCEPT !.tm_min = result]
      [] formatChar = "s" -> [d EXCEPT !.tm_sec = result]
      [] OTHER -> d

\* The month search of scanValue: while( result++ < 12 ) with strncmp over
\* MONTH_ASCII_LEN characters.  Returns <<found, result>>.
RECURSIVE monthSearch(_, _, _)
monthSearch(pDate, readLoc, result) ==
    IF result < 12
    THEN IF MONTH_NAMES[result + 1] = SubSeq(pDate, readLoc + 1, readLoc + MONTH_ASCII_LEN)
         THEN <<TRUE, result + 1>>
         ELSE monthSearch(pDate, readLoc, result + 1)
    ELSE <<FALSE, result + 1>>

\* The digit loop of scanValue.  Returns <<remainingLenToRead, result>>.
RECURSIVE digitLoop(_, _, _, _)
digitLoop(pDate, loc, remainingLenToRead, result) ==
    IF remainingLenToRead > 0 /\ loc + 1 <= Len(pDate) /\ IsDigit(pDate[loc + 1])
    THEN digitLoop(pDate, loc + 1, remainingLenToRead - 1,
                   (result * 10) + (Code(pDate[loc + 1]) - Code("0")))
    ELSE <<remainingLenToRead, result>>

\* scanValue: returns the status and the updated date elements.
scanValue(pDate, formatChar, readLoc, lenToRead, d) ==
    LET rem0 == IF formatChar = "*" THEN 0 ELSE lenToRead
        isMonthName == formatChar = "M" /\ rem0 = MONTH_ASCII_LEN
        ms == monthSearch(pDate, readLoc, 0)
        st1 == IF isMonthName
               THEN (IF ms[1] THEN SigV4Success ELSE SigV4ISOFormattingError)
               ELSE SigV4InvalidParameter
        res1 == IF isMonthName THEN ms[2] ELSE 0
        rem1 == IF isMonthName THEN 0 ELSE rem0
        dl == digitLoop(pDate, readLoc, rem1, res1)
        st2 == IF dl[1] # 0 THEN SigV4ISOFormattingError ELSE st1
    IN  [ status |-> st2,
          date |-> IF st2 # SigV4ISOFormattingError THEN addToDate(formatChar, dl[2], d) ELSE d ]

\* The loop of parseDate over the format string (offsets are 0-based as in C).
RECURSIVE parseLoop(_, _, _, _, _, _)
parseLoop(pDate, pFormat, formatIndex, readLoc, status, d) ==
    IF formatIndex < Len(pFormat) /\ status # SigV4ISOFormattingError
    THEN IF pFormat[formatIndex + 1] = "%"
         THEN LET lenToRead == Code(pFormat[formatIndex + 2]) - Code("0")
                  r == scanValue(pDate, pFormat[formatIndex + 3], readLoc, lenToRead, d)
              IN  parseLoop(pDate, pFormat, formatIndex + 3, readLoc + lenToRead, r.status, r.date)
         ELSE IF pDate[readLoc + 1] # pFormat[formatIndex + 1]
              THEN parseLoop(pDate, pFormat, formatIndex + 1, readLoc, SigV4ISOFormattingError, d)
              ELSE parseLoop(pDate, pFormat, formatIndex + 1, readLoc + 1, status, d)
    ELSE [ status |-> status, date |-> d ]

parseDate(pDate, pFormat) ==
    LET r == parseLoop(pDate, pFormat, 0, 0, SigV4InvalidParameter, ZeroDate)
    IN  [ status |-> IF r.status # SigV4ISOFormattingError
                     THEN SigV4Success ELSE SigV4ISOFormattingError,
          date |-> r.date ]

\* A variant that fills the output buffer before the date is validated.
dateWrittenBeforeValidation(req) ==
    LET dateLen == Len(req.pDate)
        paramsOk == /\ ~req.dateNull
                    /\ ~req.outNull
                    /\ (dateLen = SIGV4_EXPECTED_LEN_RFC_3339 \/ dateLen = SIGV4_EXPECTED_LEN_RFC_5322)
                    /\ Len(req.pDateISO8601) >= SIGV4_ISO_STRING_LEN
        parsed == parseDate(req.pDate, IF dateLen = SIGV4_EXPECTED_LEN_RFC_3339
                                       THEN FORMAT_RFC_3339 ELSE FORMAT_RFC_5322)
        st1 == IF paramsOk THEN parsed.status ELSE SigV4InvalidParameter
        date == parsed.date
        written == intToAscii(date.tm_year, ISO_YEAR_LEN)
                   \o intToAscii(date.tm_mon, ISO_NON_YEAR_LEN)
                   \o intToAscii(date.tm_mday, ISO_NON_YEAR_LEN)
                   \o <<"T">>
                   \o intToAscii(date.tm_hour, ISO_NON_YEAR_LEN)
                   \o intToAscii(date.tm_min, ISO_NON_YEAR_LEN)
                   \o intToAscii(date.tm_sec, ISO_NON_YEAR_LEN)
                   \o <<"Z">>
    IN  [ status |-> IF st1 = SigV4Success THEN validateDateTime(parsed.date) ELSE st1,
          out |-> IF st1 = SigV4Success
                  THEN written \o SubSeq(req.pDateISO8601, Len(written) + 1, Len(req.pDateISO8601))
                  ELSE req.pDateISO8601 ]

\* SigV4_AwsIotDateToIso8601.  req.pDate and req.pDateISO8601 are the two
\* buffers (req.dateNull / req.outNull say the pointer is NULL); the lengths
\* are the lengths of the sequences.  Returns the status and the output buffer.
SigV4_AwsIotDateToIso8601(req) ==
    LET dateLen == Len(req.pDate)
        dateISO8601Len == Len(req.pDateISO8601)
        paramsOk == /\ ~req.dateNull
                    /\ ~req.outNull
                    /\ (dateLen = SIGV4_EXPECTED_LEN_RFC_3339 \/ dateLen = SIGV4_EXPECTED_LEN_RFC_5322)
                    /\ dateISO8601Len >= SIGV4_ISO_STRING_LEN
        pFormatStr == IF dateLen = SIGV4_EXPECTED_LEN_RFC_3339
                      THEN FORMAT_RFC_3339 ELSE FORMAT_RFC_5322
        parsed == parseDate(req.pDate, pFormatStr)
        st1 == IF paramsOk THEN parsed.status ELSE SigV4InvalidParameter
        st2 == IF st1 = SigV4Success THEN validateDateTime(parsed.date) ELSE st1
        date == parsed.date
        written == intToAscii(date.tm_year, ISO_YEAR_LEN)
                   \o intToAscii(date.tm_mon, ISO_NON_YEAR_LEN)
                   \o intToAscii(date.tm_mday, ISO_NON_YEAR_LEN)
                   \o <<"T">>
                   \o intToAscii(date.tm_hour, ISO_NON_YEAR_LEN)
                   \o intToAscii(date.tm_min, ISO_NON_YEAR_LEN)
                   \o intToAscii(date.tm_sec, ISO_NON_YEAR_LEN)
                   \o <<"Z">>
    IN  [ status |-> st2,
          out |-> IF st2 = SigV4Success
                  THEN written \o SubSeq(req.pDateISO8601, Len(written) + 1, dateISO8601Len)
                  ELSE req.pDateISO8601 ]

(***************************************************************************)
(* Bytes of the signing call.                                              *)
(*                                                                         *)
(* A byte of memory is a record.  t = "c": the character ch.  t = "h":     *)
(* byte i of the digest the hash function returned for the id-th distinct  *)
(* input it was given (the hash is an injective function of its input).    *)
(* t = "junk": an indeterminate byte.  x says what was applied to it:      *)
(* "ipad" / "opad" the XOR with 0x36 / 0x5c, "hi" / "lo" the lowercase hex *)
(* digit of its high / low nibble.                                         *)
(***************************************************************************)

Lit(c) == [ t |-> "c", x |-> "", ch |-> c, id |-> 0, i |-> 0 ]
Junk == [ t |-> "junk", x |-> "", ch |-> "", id |-> 0, i |-> 0 ]
DigestByte(n, k) == [ t |-> "h", x |-> "", ch |-> "", id |-> n, i |-> k ]

\* The bytes of a character string.
Str(s) == [ k \in 1..Len(s) |-> Lit(s[k]) ]

IsLit(b, c) == b.t = "c" /\ b.x = "" /\ b.ch = c

LINEFEED_CHAR == "\n"
SPACE_CHAR == " "
CREDENTIAL_SCOPE_SEPARATOR == "/"

\* b ^ 0x36
XorIpad(b) == IF b.t # "junk" /\ b.x = "" THEN [b EXCEPT !.x = "ipad"] ELSE Junk

\* b ^ 0x6a, for a byte that is already XORed with 0x36
XorIpadOpad(b) == IF b.t # "junk" /\ b.x = "ipad" THEN [b EXCEPT !.x = "opad"] ELSE Junk

HexDigits == <<"0","1","2","3","4","5","6","7","8","9","a","b","c","d","e","f">>

\* The two characters lowercaseHexEncode writes for the byte b.
HexPair(b) ==
    CASE b.t = "h" /\ b.x = "" -> << [b EXCEPT !.x = "hi"], [b EXCEPT !.x = "lo"] >>
      [] b.t = "c" /\ b.x = "" -> << Lit(HexDigits[(Code(b.ch) \div 16) + 1]),
                                    Lit(HexDigits[(Code(b.ch) % 16) + 1]) >>
      [] OTHER -> << Junk, Junk >>

RECURSIVE HexOf(_)
HexOf(bytes) == IF bytes = <<>> THEN <<>> ELSE HexPair(Head(bytes)) \o HexOf(Tail(bytes))

\* F(v), with v evaluated once.
Bind(v, F(_)) == CHOOSE y \in { F(w) : w \in { v } } : TRUE

(***************************************************************************)
(* The hash interface (SigV4CryptoInterface_t).  The state of the hash     *)
(* implementation: acc, the bytes given since the last hashInit; log, the  *)
(* distinct inputs digested so far; fin, the input of every successful     *)
(* hashFinal in call order; calls, every call made and its return code;    *)
(* bad, whether a function pointer that is NULL was called.  The call      *)
(* P.failAt (counted from 0) of kind P.failKind fails.                     *)
(***************************************************************************)

NoHash == [ acc |-> <<>>, log |-> <<>>, fin |-> <<>>, calls |-> <<>>,
            nInit |-> 0, nUpdate |-> 0, nFinal |-> 0, bad |-> FALSE ]

hashInit(P, hs) ==
    LET fail == P.failKind = "init" /\ P.failAt = hs.nInit
        rc == IF fail THEN 1 ELSE 0
    IN  [ rc |-> rc,
          hs |-> [hs EXCEPT !.nInit = @ + 1, !.acc = IF fail THEN @ ELSE <<>>,
                            !.calls = Append(@, <<"init", rc>>),
                            !.bad = @ \/ "hashInit" \in P.nulls] ]

hashUpdate(P, hs, input) ==
    LET fail == P.failKind = "update" /\ P.failAt = hs.nUpdate
        rc == IF fail THEN 1 ELSE 0
    IN  [ rc |-> rc,
          hs |-> [hs EXCEPT !.nUpdate = @ + 1, !.acc = IF fail THEN @ ELSE @ \o input,
                            !.calls = Append(@, <<"update", rc>>),
                            !.bad = @ \/ "hashUpdate" \in P.nulls] ]

\* The index of input in the log (0 when it is not there).
IdOf(log, input) ==
    IF \E n \in 1..Len(log) : log[n] = input
    THEN CHOOSE n \in 1..Len(log) : log[n] = input
    ELSE 0

\* The digest of the id-th input.
Digest(n, digestLen) == [ k \in 1..digestLen |-> DigestByte(n, k) ]

\* hashFinal: out is the digest written to the output (hashDigestLen bytes).
hashFinal(P, hs) ==
    LET fail == P.failKind = "final" /\ P.failAt = hs.nFinal
        rc == IF fail THEN 1 ELSE 0
        known == IdOf(hs.log, hs.acc)
        log2 == IF fail \/ known # 0 THEN hs.log ELSE Append(hs.log, hs.acc)
    IN  [ rc |-> rc,
          out |-> IF fail THEN <<>> ELSE Digest(IdOf(log2, hs.acc), P.hashDigestLen),
          hs |-> [hs EXCEPT !.nFinal = @ + 1, !.log = log2,
                            !.fin = IF fail THEN @ ELSE Append(@, hs.acc),
                            !.calls = Append(@, <<"final", rc>>),
                            !.bad = @ \/ "hashFinal" \in P.nulls] ]

\* A variant that goes on to the update when the init has failed.
completeHashUnchecked(P, hs, input) ==
    Bind(hashInit(P, hs), LAMBDA r1 :
    Bind(hashUpdate(P, r1.hs, input), LAMBDA r2 :
         IF r2.rc = 0 THEN hashFinal(P, r2.hs) ELSE [ rc |-> r2.rc, out |-> <<>>, hs |-> r2.hs ]))

\* completeHash: init, update, final, each only when the one before returned 0.
completeHash(P, hs, input) ==
    Bind(hashInit(P, hs), LAMBDA r1 :
    Bind(IF r1.rc = 0 THEN hashUpdate(P, r1.hs, input) ELSE r1, LAMBDA r2 :
         IF r2.rc = 0 THEN hashFinal(P, r2.hs) ELSE [ rc |-> r2.rc, out |-> <<>>, hs |-> r2.hs ]))

(***************************************************************************)
(* The HMAC engine.  An HMAC state is [rc, hs, key, keyLen]: the return    *)
(* code of the last hash call, the hash state, and the key block and key   *)
(* length of HmacContext_t.                                                *)
(***************************************************************************)

\* memcpy / memset into a local array (1-based position pos + 1 onwards).
Splice(arr, pos, bytes) ==
    [ k \in 1..Len(arr) |-> IF k > pos /\ k <= pos + Len(bytes) THEN bytes[k - pos] ELSE arr[k] ]

\* One call of the hash interface on the HMAC state h, made when every
\* call before it returned 0.
ThenInit(P, h) ==
    IF h.rc # 0 THEN h
    ELSE Bind(hashInit(P, h.hs), LAMBDA r : [ h EXCEPT !.rc = r.rc, !.hs = r.hs ])

ThenUpdate(P, h, input) ==
    IF h.rc # 0 THEN h
    ELSE Bind(hashUpdate(P, h.hs, input), LAMBDA r : [ h EXCEPT !.rc = r.rc, !.hs = r.hs ])

hmacKey(P, h, pKey) ==
    IF h.keyLen + Len(pKey) <= P.hashBlockLen
    THEN [ h EXCEPT !.rc = 0, !.key = Splice(@, h.keyLen, pKey), !.keyLen = @ + Len(pKey) ]
    ELSE Bind(IF h.keyLen <= P.hashBlockLen
              THEN ThenUpdate(P, ThenInit(P, [ h EXCEPT !.rc = 0 ]), SubSeq(h.key, 1, h.keyLen))
              ELSE [ h EXCEPT !.rc = 0 ],
              LAMBDA h1 : [ ThenUpdate(P, h1, pKey) EXCEPT !.keyLen = @ + Len(pKey) ])

\* hmacData, the key longer than a block: its hash becomes the key.
hashDownKey(P, h) ==
    IF h.keyLen <= P.hashBlockLen THEN [ h EXCEPT !.rc = 0 ]
    ELSE Bind(hashFinal(P, h.hs), LAMBDA r :
              [ h EXCEPT !.rc = r.rc, !.hs = r.hs,
                         !.key = IF r.rc = 0 THEN Splice(@, 0, r.out) ELSE @,
                         !.keyLen = P.hashDigestLen ])

\* hmacData, the key zero-padded to a block and XORed with the inner pad.
innerPadKey(P, h) ==
    IF h.rc # 0 THEN h
    ELSE [ h EXCEPT !.key = [ k \in 1..Len(@) |->
                                IF k > P.hashBlockLen THEN @[k]
                                ELSE IF k > h.keyLen THEN XorIpad(Lit("NUL"))
                                ELSE XorIpad(@[k]) ] ]

hmacData(P, h, pData) ==
    Bind(ThenInit(P, innerPadKey(P, hashDownKey(P, h))), LAMBDA h1 :
    Bind(ThenUpdate(P, h1, SubSeq(h1.key, 1, P.hashBlockLen)), LAMBDA h2 :
         IF Len(pData) > 0 THEN ThenUpdate(P, h2, pData) ELSE h2))

\* hmacFinal, the block key XORed with the outer pad.
outerPadKey(P, h) ==
    [ h EXCEPT !.key = [ k \in 1..Len(@) |-> IF k <= P.hashBlockLen THEN XorIpadOpad(@[k]) ELSE @[k] ] ]

\* A variant that leaves the key length of the context as it is.
hmacFinalKeepsKeyLen(P, h) ==
    Bind(hashFinal(P, h.hs), LAMBDA r0 :
    Bind(IF r0.rc # 0 THEN [ h EXCEPT !.rc = r0.rc, !.hs = r0.hs ]
         ELSE ThenInit(P, outerPadKey(P, [ h EXCEPT !.rc = 0, !.hs = r0.hs ])), LAMBDA h1 :
    Bind(ThenUpdate(P, ThenUpdate(P, h1, SubSeq(h1.key, 1, P.hashBlockLen)), r0.out), LAMBDA h2 :
    Bind(IF h2.rc # 0 THEN [ rc |-> h2.rc, hs |-> h2.hs, out |-> <<>> ] ELSE hashFinal(P, h2.hs),
         LAMBDA r4 :
         [ rc |-> r4.rc, hs |-> r4.hs, out |-> r4.out, key |-> h2.key, keyLen |-> h.keyLen ]))))

\* hmacFinal: out is the MAC written to pMac (empty when a hash call failed).
hmacFinal(P, h) ==
    Bind(hashFinal(P, h.hs), LAMBDA r0 :
    Bind(IF r0.rc # 0 THEN [ h EXCEPT !.rc = r0.rc, !.hs = r0.hs ]
         ELSE ThenInit(P, outerPadKey(P, [ h EXCEPT !.rc = 0, !.hs = r0.hs ])), LAMBDA h1 :
    Bind(ThenUpdate(P, ThenUpdate(P, h1, SubSeq(h1.key, 1, P.hashBlockLen)), r0.out), LAMBDA h2 :
    Bind(IF h2.rc # 0 THEN [ rc |-> h2.rc, hs |-> h2.hs, out |-> <<>> ] ELSE hashFinal(P, h2.hs),
         LAMBDA r4 :
         [ rc |-> r4.rc, hs |-> r4.hs, out |-> r4.out, key |-> h2.key, keyLen |-> 0 ]))))

\* completeHmac: the key, the data, then the MAC; -1 without any hash call
\* when the output has fewer than hashDigestLen bytes.
completeHmac(P, h, pKey, pData, outputLen) ==
    IF outputLen < P.hashDigestLen
    THEN [ rc |-> -1, hs |-> h.hs, out |-> <<>>, key |-> h.key, keyLen |-> h.keyLen ]
    ELSE Bind(hmacKey(P, h, pKey), LAMBDA k :
         Bind(IF k.rc = 0 THEN hmacData(P, k, pData) ELSE k, LAMBDA d :
              IF d.rc = 0 THEN hmacFinal(P, d)
              ELSE [ rc |-> d.rc, hs |-> d.hs, out |-> <<>>, key |-> d.key, keyLen |-> d.keyLen ]))

(***************************************************************************)
(* The memory of one signing call.                                         *)
(*                                                                         *)
(* P is the call's input (SigV4Parameters_t and the other arguments) and   *)
(* the build's configuration; M is the memory the call works on:           *)
(*   buf         the processing buffer of CanonicalContext_t (offset o is  *)
(*               buf[o + 1]) followed by BeyondLen bytes of whatever lies  *)
(*               behind it in memory                                       *)
(*   cur, rem    pBufCur (as an offset into buf) and bufRemaining          *)
(*   hdrs, qrys  pHeadersLoc and pQueryLoc (offsets into the inputs)       *)
(*   st          returnStatus                                              *)
(*   ev          what has happened that the C standard leaves undefined,   *)
(*               or that an assert() guards                                *)
(*   beyond      what the build does with a byte written past the buffer:  *)
(*               "kept" (it can be read back) or "lost"                    *)
(***************************************************************************)

\* Width of size_t: SIZE_MAX + 1 is the modulus of unsigned arithmetic.
SIZE_MAX == 65535
\* Bytes of memory modelled behind the processing buffer and the caller's buffer.
BeyondLen == 24

SizeMod == SIZE_MAX + 1

\* Unsigned subtraction a - b; the event "wrap" records a result below zero.
SubRem(M, a, b) ==
    [M EXCEPT !.rem = (a - b) % SizeMod,
              !.ev = IF a < b THEN @ \cup {"wrap"} ELSE @]

\* Store bytes at offset off of the processing buffer.
Poke(P, M, off, bytes) ==
    LET n == Len(bytes)
    IN  [M EXCEPT
          !.buf = [ k \in 1..Len(M.buf) |->
                      IF k > off /\ k <= off + n
                      THEN (IF k <= P.bufLen \/ M.beyond = "kept" THEN bytes[k - off] ELSE Junk)
                      ELSE M.buf[k] ],
          !.ev = IF n > 0 /\ off + n > P.bufLen THEN @ \cup {"oob_write"} ELSE @]

\* Load n bytes from offset off of the processing buffer.
Peek(M, off, n) ==
    [ k \in 1..n |-> IF off + k >= 1 /\ off + k <= Len(M.buf) THEN M.buf[off + k] ELSE Junk ]

Expect(M, cond) == IF cond THEN M ELSE [M EXCEPT !.ev = @ \cup {"assert"}]

SetStatus(M, status) == [M EXCEPT !.st = status]

writeLineToCanonicalRequest(P, M, isNull, line) ==
    Bind(Expect(M, ~isNull /\ Len(line) > 0), LAMBDA M0 :
         IF M0.rem < Len(line) + 1
         THEN SetStatus(M0, SigV4InsufficientMemory)
         ELSE SubRem([ Poke(P, M0, M0.cur, line \o <<Lit(LINEFEED_CHAR)>>) EXCEPT !.cur = @ + Len(line) + 1 ],
                     M0.rem, Len(line) + 1))

(***************************************************************************)
(* URI encoding.                                                           *)
(***************************************************************************)

URI_ENCODED_SPECIAL_CHAR_SIZE == 3
URI_DOUBLE_ENCODED_EQUALS_CHAR_SIZE == 5

isalnum(c) ==
    \/ (Code(c) >= Code("0") /\ Code(c) <= Code("9"))
    \/ (Code(c) >= Code("A") /\ Code(c) <= Code("Z"))
    \/ (Code(c) >= Code("a") /\ Code(c) <= Code("z"))

toUpperHexChar(value) ==
    IF value < 10 THEN Chr(Code("0") + value) ELSE Chr((Code("A") + value) - 10)

\* The three bytes writeHexCodeOfChar stores for the byte b.
writeHexCodeOfChar(b) ==
    IF b.t = "c" /\ b.x = ""
    THEN << Lit("%"), Lit(toUpperHexChar(Code(b.ch) \div 16)), Lit(toUpperHexChar(Code(b.ch) % 16)) >>
    ELSE << Lit("%"), Junk, Junk >>

writeDoubleEncodedEquals == Str(<<"%", "2", "5", "3", "D">>)

\* Whether encodeURI copies the byte as it is.
IsUnreserved(b, encodeSlash) ==
    \/ b.t # "c" \/ b.x # ""
    \/ isalnum(b.ch) \/ b.ch \in {"-", "_", ".", "~"}
    \/ (b.ch = "/" /\ ~encodeSlash)

\* The loop of encodeURI over pUri (a sequence of bytes), writing at offset
\* off of the processing buffer, which has bufferLen bytes from there.
RECURSIVE encodeLoop(_, _, _, _, _, _, _, _, _, _)
encodeLoop(P, M, pUri, index, off, bufferLen, bytesConsumed, status, encodeSlash, doubleEncodeEquals) ==
    IF index >= Len(pUri)
    THEN [ M |-> M, st |-> status, len |-> bytesConsumed ]
    ELSE
      LET currUriChar == pUri[index + 1]
          post(n) == IF n > bufferLen THEN SigV4InsufficientMemory ELSE status
      IN  IF doubleEncodeEquals /\ IsLit(currUriChar, "=")
          THEN IF bytesConsumed > SIZE_MAX - URI_DOUBLE_ENCODED_EQUALS_CHAR_SIZE
                  \/ bytesConsumed + URI_DOUBLE_ENCODED_EQUALS_CHAR_SIZE > bufferLen
               THEN [ M |-> M, st |-> SigV4InsufficientMemory, len |-> bytesConsumed ]
               ELSE encodeLoop(P, Expect(Poke(P, M, off + bytesConsumed, writeDoubleEncodedEquals),
                                         bufferLen - bytesConsumed > URI_DOUBLE_ENCODED_EQUALS_CHAR_SIZE),
                               pUri, index + 1, off, bufferLen,
                               bytesConsumed + URI_DOUBLE_ENCODED_EQUALS_CHAR_SIZE,
                               post(bytesConsumed + URI_DOUBLE_ENCODED_EQUALS_CHAR_SIZE),
                               encodeSlash, doubleEncodeEquals)
          ELSE IF IsUnreserved(currUriChar, encodeSlash)
          THEN encodeLoop(P, Poke(P, M, off + bytesConsumed, <<currUriChar>>),
                          pUri, index + 1, off, bufferLen,
                          bytesConsumed + 1, post(bytesConsumed + 1),
                          encodeSlash, doubleEncodeEquals)
          ELSE IF bytesConsumed > SIZE_MAX - URI_ENCODED_SPECIAL_CHAR_SIZE
                  \/ bytesConsumed + URI_ENCODED_SPECIAL_CHAR_SIZE > bufferLen
               THEN [ M |-> M, st |-> SigV4InsufficientMemory, len |-> bytesConsumed ]
               ELSE encodeLoop(P, Poke(P, M, off + bytesConsumed, writeHexCodeOfChar(currUriChar)),
                               pUri, index + 1, off, bufferLen,
                               bytesConsumed + URI_ENCODED_SPECIAL_CHAR_SIZE,
                               post(bytesConsumed + URI_ENCODED_SPECIAL_CHAR_SIZE),
                               encodeSlash, doubleEncodeEquals)

\* encodeURI: returns the memory, the status and *canonicalURILen.
encodeURI(P, M, pUri, off, bufferLen, encodeSlash, doubleEncodeEquals) ==
    encodeLoop(P, Expect(M, bufferLen > 0), pUri, 0, off, bufferLen, 0, SigV4Success,
               encodeSlash, doubleEncodeEquals)

\* generateCanonicalURI after the encoding: enc is the memory and loc the
\* end of the URI in the buffer.
finishCanonicalURI(P, enc) ==
    IF enc.M.st # SigV4Success THEN enc.M
    ELSE IF enc.M.rem < 1 THEN SetStatus(enc.M, SigV4InsufficientMemory)
    ELSE SubRem([ Poke(P, enc.M, enc.loc, <<Lit(LINEFEED_CHAR)>>) EXCEPT !.cur = enc.loc + 1 ],
                enc.M.rem, 1)

\* generateCanonicalURI, the second encoding: e1 is the result of the first.
encodeAgain(P, M, e1) ==
    Bind(encodeURI(P, e1.M, Peek(e1.M, M.cur, e1.len), M.cur + e1.len,
                   (M.rem - e1.len) % SizeMod, FALSE, FALSE),
         LAMBDA e2 :
           IF e2.st # SigV4Success
           THEN [ M |-> SetStatus(IF M.rem < e1.len THEN [ e2.M EXCEPT !.ev = @ \cup {"wrap"} ] ELSE e2.M,
                                  e2.st),
                  loc |-> M.cur ]
           ELSE [ M |-> SubRem(Poke(P, e2.M, M.cur, Peek(e2.M, M.cur + e1.len, e2.len)),
                               e2.M.rem, e2.len),
                  loc |-> M.cur + e2.len ])

\* A variant that encodes the path once for every service.
generateCanonicalURIOnce(P, M, pUri, encodeTwice) ==
    Bind(encodeURI(P, M, pUri, M.cur, M.rem, FALSE, FALSE), LAMBDA e1 :
         finishCanonicalURI(P,
             IF e1.st # SigV4Success THEN [ M |-> SetStatus(e1.M, e1.st), loc |-> M.cur ]
             ELSE [ M |-> SubRem(e1.M, e1.M.rem, e1.len), loc |-> M.cur + e1.len ]))

generateCanonicalURI(P, M, pUri, encodeTwice) ==
    Bind(encodeURI(P, M, pUri, M.cur, M.rem, FALSE, FALSE), LAMBDA e1 :
         finishCanonicalURI(P,
             IF e1.st # SigV4Success THEN [ M |-> SetStatus(e1.M, e1.st), loc |-> M.cur ]
             ELSE IF ~encodeTwice
             THEN [ M |-> SubRem(e1.M, e1.M.rem, e1.len), loc |-> M.cur + e1.len ]
             ELSE encodeAgain(P, M, e1)))

(***************************************************************************)
(* Sorting.  A key-value pair is [key, value]: the characters its two      *)
(* SigV4ConstString_t point at.                                            *)
(***************************************************************************)

\* Model value of SIGV4_MAX_QUERY_PAIR_COUNT and SIGV4_MAX_HTTP_HEADER_COUNT.
SIGV4_MAX_QUERY_PAIR_COUNT == 3
SIGV4_MAX_HTTP_HEADER_COUNT == 3

NoPair == [ key |-> <<>>, value |-> <<>> ]

Sign(n) == IF n < 0 THEN -1 ELSE IF n > 0 THEN 1 ELSE 0

RECURSIVE strncmp(_, _, _)
strncmp(a, b, n) ==
    IF n = 0 THEN 0
    ELSE IF a[1] # b[1] THEN Sign(Code(a[1]) - Code(b[1]))
    ELSE IF a[1] = "NUL" THEN 0
    ELSE strncmp(Tail(a), Tail(b), n - 1)

Smaller(a, b) == IF a < b THEN a ELSE b

cmpHeaderField(pFirst, pSecond) ==
    strncmp(pFirst.key, pSecond.key, Smaller(Len(pFirst.key), Len(pSecond.key)))

\* cmpQueryFieldValue, the values compared when keys of one length agree.
cmpQueryValueLengths(pFirst, pSecond, c1) ==
    IF c1 = 0 /\ Len(pFirst.value) # Len(pSecond.value)
    THEN (IF Len(pFirst.value) < Len(pSecond.value) THEN -1 ELSE 1)
    ELSE c1

cmpQueryKeyLengths(pFirst, pSecond, byKey) ==
    IF byKey # 0 THEN byKey
    ELSE IF Len(pFirst.key) = Len(pSecond.key)
    THEN strncmp(pFirst.value, pSecond.value, Smaller(Len(pFirst.value), Len(pSecond.value)))
    ELSE IF Len(pFirst.key) < Len(pSecond.key) THEN -1 ELSE 1

cmpQueryFieldValue(pFirst, pSecond) ==
    cmpQueryValueLengths(pFirst, pSecond,
        cmpQueryKeyLengths(pFirst, pSecond,
            strncmp(pFirst.key, pSecond.key, Smaller(Len(pFirst.key), Len(pSecond.key)))))

Perms(n) == { p \in [1..n -> 1..n] : \A i, j \in 1..n : p[i] = p[j] => i = j }

\* qsort: the first n elements of arr in every order the library function may
\* leave them in, which is every order in which no element is followed by
\* one that the comparison puts before it.
qsort(arr, n, cmp(_, _)) ==
    { [ k \in 1..Len(arr) |-> IF k <= n THEN arr[p[k]] ELSE arr[k] ] :
        p \in { q \in Perms(n) : \A k \in 1..(n - 1) : cmp(arr[q[k]], arr[q[k + 1]]) <= 0 } }

(***************************************************************************)
(* The canonical query.                                                    *)
(***************************************************************************)

\* Store a pair in pQueryLoc; index SIGV4_MAX_QUERY_PAIR_COUNT is past its end.
SetPair(Q, index, pair) ==
    [ Q EXCEPT !.loc = [ k \in 1..Len(Q.loc) |-> IF k = index + 1 THEN pair ELSE Q.loc[k] ],
               !.oob = @ \/ index >= SIGV4_MAX_QUERY_PAIR_COUNT ]

\* The loop of setQueryStringFieldsAndValues; Q is [loc, oob].
RECURSIVE queryLoop(_, _, _, _, _, _)

\* The end of one round: the loop stops once currentParameter has passed
\* SIGV4_MAX_QUERY_PAIR_COUNT, otherwise it goes on from i + 1.
queryNext(pQuery, i, currentParameter, startOfFieldOrValue, fieldHasValue, Q) ==
    IF currentParameter > SIGV4_MAX_QUERY_PAIR_COUNT THEN [ n |-> currentParameter, Q |-> Q ]
    ELSE queryLoop(pQuery, i + 1, currentParameter, startOfFieldOrValue, fieldHasValue, Q)

\* The end of a field or value at index i (already advanced past the last
\* character of the query).
queryEndOfField(pQuery, i, currentParameter, startOfFieldOrValue, fieldHasValue, Q) ==
    IF i - startOfFieldOrValue = 0
    THEN queryNext(pQuery, i, currentParameter, startOfFieldOrValue, fieldHasValue, Q)
    ELSE IF ~fieldHasValue
    THEN queryNext(pQuery, i, currentParameter + 1, i + 1, fieldHasValue,
                   SetPair(Q, currentParameter,
                           [ key |-> SubSeq(pQuery, startOfFieldOrValue + 1, i), value |-> <<>> ]))
    ELSE queryNext(pQuery, i, currentParameter + 1, i + 1, FALSE,
                   SetPair(Q, currentParameter,
                           [ Q.loc[currentParameter + 1] EXCEPT
                               !.value = SubSeq(pQuery, startOfFieldOrValue + 1, i) ]))

queryLoop(pQuery, i, currentParameter, startOfFieldOrValue, fieldHasValue, Q) ==
    IF i >= Len(pQuery) THEN [ n |-> currentParameter, Q |-> Q ]
    ELSE IF pQuery[i + 1] = "=" /\ ~fieldHasValue
    THEN queryNext(pQuery, i, currentParameter, i + 1, TRUE,
                   SetPair(Q, currentParameter,
                           [ Q.loc[currentParameter + 1] EXCEPT
                               !.key = SubSeq(pQuery, startOfFieldOrValue + 1, i) ]))
    ELSE IF i = Len(pQuery) - 1 \/ (pQuery[i + 1] = "&" /\ i # 0)
    THEN queryEndOfField(pQuery, IF i = Len(pQuery) - 1 THEN i + 1 ELSE i,
                         currentParameter, startOfFieldOrValue, fieldHasValue, Q)
    ELSE queryNext(pQuery, i, currentParameter, startOfFieldOrValue, fieldHasValue, Q)

setQueryStringFieldsAndValues(pQuery) ==
    queryLoop(pQuery, 0, 0, 0, FALSE,
              [ loc |-> [ k \in 1..(SIGV4_MAX_QUERY_PAIR_COUNT + 1) |-> NoPair ], oob |-> FALSE ])

\* writeValueInCanonicalizedQueryString: the memory, the status, *pBufCur
\* and *pRemainingLen.
writeValueInCanonicalizedQueryString(P, M, pValue, pBufCur, pRemainingLen) ==
    IF pRemainingLen < 1
    THEN [ M |-> M, st |-> SigV4InsufficientMemory, loc |-> pBufCur, rem |-> pRemainingLen ]
    ELSE Bind(encodeURI(P, Poke(P, M, pBufCur, <<Lit("=")>>), Str(pValue), pBufCur + 1,
                        (pRemainingLen - 1) % SizeMod, TRUE, TRUE),
              LAMBDA v :
                IF v.st # SigV4Success
                THEN [ M |-> v.M, st |-> v.st, loc |-> pBufCur + 1, rem |-> (pRemainingLen - 1) % SizeMod ]
                ELSE [ M |-> v.M, st |-> SigV4Success, loc |-> pBufCur + 1 + v.len,
                       rem |-> (pRemainingLen - 1 - v.len) % SizeMod ])

\* One parameter of writeCanonicalQueryParameters: its key and its value.
writeQueryParameter(P, M, pair, pBufLoc, remainingLen) ==
    Bind(encodeURI(P, Expect(M, Len(pair.key) > 0), Str(pair.key), pBufLoc, remainingLen, TRUE, FALSE),
         LAMBDA k :
           IF k.st # SigV4Success
           THEN [ M |-> k.M, st |-> k.st, loc |-> pBufLoc, rem |-> remainingLen ]
           ELSE IF Len(pair.value) = 0
           THEN [ M |-> k.M, st |-> SigV4Success, loc |-> pBufLoc + k.len,
                  rem |-> (remainingLen - k.len) % SizeMod ]
           ELSE writeValueInCanonicalizedQueryString(P, k.M, pair.value, pBufLoc + k.len,
                                                     (remainingLen - k.len) % SizeMod))

\* The separator after a parameter that is not the last.
writeQuerySeparator(P, r, last) ==
    IF r.rem < 1 /\ ~last
    THEN [ r EXCEPT !.st = SigV4InsufficientMemory ]
    ELSE IF ~last /\ r.st = SigV4Success
    THEN [ r EXCEPT !.M = Poke(P, @, r.loc, <<Lit("&")>>), !.loc = @ + 1, !.rem = (@ - 1) % SizeMod ]
    ELSE r

\* The loop of writeCanonicalQueryParameters, from parameter i.
RECURSIVE writeQueryLoop(_, _, _, _, _, _)
writeQueryLoop(P, M, loc, numberOfParameters, i, W) ==
    IF i >= numberOfParameters THEN M
    ELSE Bind(writeQuerySeparator(P, writeQueryParameter(P, M, loc[i + 1], W.pBufLoc, W.remainingLen),
                                  numberOfParameters = i + 1),
              LAMBDA sep :
                IF sep.st # SigV4Success
                THEN SetStatus(sep.M, sep.st)
                ELSE writeQueryLoop(P, [ sep.M EXCEPT !.cur = sep.loc, !.rem = sep.rem ],
                                    loc, numberOfParameters, i + 1,
                                    [ pBufLoc |-> sep.loc, remainingLen |-> sep.rem ]))

writeCanonicalQueryParameters(P, M, loc, numberOfParameters) ==
    writeQueryLoop(P, M, loc, numberOfParameters, 0, [ pBufLoc |-> M.cur, remainingLen |-> M.rem ])

\* The linefeed generateCanonicalQuery appends.
appendQueryLinefeed(P, M) ==
    IF M.st # SigV4Success THEN M
    ELSE SubRem([ Poke(P, M, M.cur, <<Lit(LINEFEED_CHAR)>>) EXCEPT !.cur = @ + 1 ], M.rem, 1)

\* generateCanonicalQuery after the parsing (parsed is [n, Q]).
sortAndWriteQuery(P, M, parsed) ==
    IF parsed.n > SIGV4_MAX_QUERY_PAIR_COUNT
    THEN { SetStatus([ M EXCEPT !.qrys = parsed.Q.loc, !.nQry = parsed.n,
                                !.ev = IF parsed.Q.oob THEN @ \cup {"pair_oob"} ELSE @ ],
                     SigV4MaxQueryPairCountExceeded) }
    ELSE { appendQueryLinefeed(P,
               writeCanonicalQueryParameters(
                   P, [ M EXCEPT !.qrys = sorted, !.nQry = parsed.n,
                                 !.ev = IF parsed.Q.oob THEN @ \cup {"pair_oob"} ELSE @ ],
                   sorted, parsed.n)) :
           sorted \in qsort(parsed.Q.loc, parsed.n, cmpQueryFieldValue) }

\* generateCanonicalQuery: every memory the call may leave (one for each
\* order qsort may produce).
generateCanonicalQuery(P, M, pQuery) ==
    UNION { sortAndWriteQuery(P, M, parsed) : parsed \in { setQueryStringFieldsAndValues(pQuery) } }

(***************************************************************************)
(* The canonical and the signed headers.                                   *)
(***************************************************************************)

isspace(c) == c \in {" ", "\t", "\n", "VT", "FF", "\r"}

tolower(c) ==
    IF Code(c) >= Code("A") /\ Code(c) <= Code("Z") THEN Chr(Code(c) + 32) ELSE c

isTrimmableSpace(value, index, valLen, trimmedLength) ==
    /\ isspace(value[index + 1])
    /\ \/ index + 1 = valLen
       \/ (index + 1 # valLen /\ isspace(value[index + 2]))
       \/ trimmedLength = 0

RECURSIVE copyHeaderLoop(_, _, _, _, _, _, _, _)
copyHeaderLoop(P, M, pData, canonical, separator, index, numOfBytesCopied, buffRemaining) ==
    IF index >= Len(pData)
    THEN [ M |-> M, st |-> SigV4Success, n |-> numOfBytesCopied, rem |-> buffRemaining ]
    ELSE IF ~canonical /\ isTrimmableSpace(pData, index, Len(pData), numOfBytesCopied)
    THEN copyHeaderLoop(P, M, pData, canonical, separator, index + 1, numOfBytesCopied, buffRemaining)
    ELSE IF buffRemaining <= 1
    THEN [ M |-> M, st |-> SigV4InsufficientMemory, n |-> numOfBytesCopied, rem |-> buffRemaining ]
    ELSE copyHeaderLoop(P,
                        Poke(P, M, M.cur + numOfBytesCopied,
                             << Lit(IF separator = "\n" THEN pData[index + 1]
                                                        ELSE tolower(pData[index + 1])) >>),
                        pData, canonical, separator, index + 1,
                        numOfBytesCopied + 1, buffRemaining - 1)

copyHeaderStringToCanonicalBuffer(P, M, pData, canonical, separator) ==
    Bind(copyHeaderLoop(P, Expect(M, Len(pData) > 0), pData, canonical, separator, 0, 0, M.rem),
         LAMBDA r :
           IF r.st # SigV4Success THEN SetStatus(r.M, r.st)
           ELSE SubRem([ Poke(P, Expect(r.M, r.rem >= 1), r.M.cur + r.n, <<Lit(separator)>>)
                           EXCEPT !.cur = @ + r.n + 1 ],
                       r.rem, 1))

RECURSIVE signedHeadersLoop(_, _, _, _, _)
signedHeadersLoop(P, M, headerCount, canonical, headerIndex) ==
    IF headerIndex >= headerCount THEN M
    ELSE Bind(copyHeaderStringToCanonicalBuffer(P, M, M.hdrs[headerIndex + 1].key, canonical, ";"),
              LAMBDA M1 :
                IF M1.st # SigV4Success THEN M1
                ELSE signedHeadersLoop(P, M1, headerCount, canonical, headerIndex + 1))

\* appendSignedHeaders after its loop: start is where the line begins.
setSignedHeaders(P, M, start) ==
    Bind([ M EXCEPT !.pSignedHeaders = start,
                    !.signedHeadersLen = (M.cur - start - 1) % SizeMod,
                    !.ev = IF M.cur - start - 1 < 0 THEN @ \cup {"wrap"} ELSE @ ],
         LAMBDA M2 : IF M2.st = SigV4Success THEN Poke(P, M2, M2.cur - 1, <<Lit("\n")>>) ELSE M2)

appendSignedHeaders(P, M, headerCount, canonical) ==
    Bind(signedHeadersLoop(P, Expect(M, headerCount > 0), headerCount, canonical, 0),
         LAMBDA M1 : setSignedHeaders(P, M1, M.cur))

RECURSIVE canonicalizedHeadersLoop(_, _, _, _, _)
canonicalizedHeadersLoop(P, M, headerCount, canonical, headerIndex) ==
    IF headerIndex >= headerCount THEN M
    ELSE Bind(copyHeaderStringToCanonicalBuffer(P, M, M.hdrs[headerIndex + 1].key, canonical, ":"),
              LAMBDA M1 :
                IF M1.st # SigV4Success THEN M1
                ELSE Bind(copyHeaderStringToCanonicalBuffer(P, M1, M.hdrs[headerIndex + 1].value,
                                                            canonical, "\n"),
                          LAMBDA M2 :
                            IF M2.st # SigV4Success THEN M2
                            ELSE canonicalizedHeadersLoop(P, M2, headerCount, canonical, headerIndex + 1)))

appendCanonicalizedHeaders(P, M, headerCount, canonical) ==
    canonicalizedHeadersLoop(P, Expect(M, headerCount > 0), headerCount, canonical, 0)

\* The loop of parseHeaderKeyValueEntries; H is [loc, n, keyFlag, start]
\* (pHeadersLoc, noOfHeaders, keyFlag, pKeyOrValStartLoc as an offset).
RECURSIVE parseHeaderLoop(_, _, _, _)
parseHeaderLoop(pHeaders, canonical, index, H) ==
    IF index >= Len(pHeaders) THEN [ st |-> SigV4Success, H |-> H ]
    ELSE
      LET c == pHeaders[index + 1]
          field == SubSeq(pHeaders, H.start + 1, index)
          set(f) == [ k \in 1..Len(H.loc) |-> IF k = H.n + 1 THEN [ H.loc[k] EXCEPT ![f] = field ]
                                              ELSE H.loc[k] ]
      IN  IF H.n = SIGV4_MAX_HTTP_HEADER_COUNT
          THEN [ st |-> SigV4MaxHeaderPairCountExceeded, H |-> H ]
          ELSE IF H.keyFlag /\ c = ":"
          THEN parseHeaderLoop(pHeaders, canonical, index + 1,
                               [ H EXCEPT !.loc = set("key"), !.start = index + 1, !.keyFlag = FALSE ])
          ELSE IF ~H.keyFlag /\ ~canonical /\ index + 1 < Len(pHeaders)
                  /\ c = "\r" /\ pHeaders[index + 2] = "\n"
          THEN parseHeaderLoop(pHeaders, canonical, index + 1,
                               [ H EXCEPT !.loc = set("value"), !.start = index + 2,
                                          !.keyFlag = TRUE, !.n = @ + 1 ])
          ELSE IF ~H.keyFlag /\ canonical /\ c = "\n"
          THEN parseHeaderLoop(pHeaders, canonical, index + 1,
                               [ H EXCEPT !.loc = set("value"), !.start = index + 1,
                                          !.keyFlag = TRUE, !.n = @ + 1 ])
          ELSE parseHeaderLoop(pHeaders, canonical, index + 1, H)

parseHeaderKeyValueEntries(M, pHeaders, canonical) ==
    Bind(parseHeaderLoop(pHeaders, canonical, 0,
                         [ loc |-> M.hdrs, n |-> 0, keyFlag |-> TRUE, start |-> 0 ]),
         LAMBDA r :
           [ Expect(Expect(M, Len(pHeaders) > 0), r.H.keyFlag)
               EXCEPT !.hdrs = r.H.loc, !.nHdr = r.H.n, !.st = r.st ])

\* The linefeed between the canonical headers and the signed headers.
appendHeadersLinefeed(P, M, canonical) ==
    IF M.st # SigV4Success \/ canonical THEN M
    ELSE IF M.rem < 1 THEN SetStatus(M, SigV4InsufficientMemory)
    ELSE SubRem([ Poke(P, M, M.cur, <<Lit(LINEFEED_CHAR)>>) EXCEPT !.cur = @ + 1 ], M.rem, 1)

appendSignedHeadersIfSuccess(P, M, noOfHeaders, canonical) ==
    IF M.st # SigV4Success THEN M ELSE appendSignedHeaders(P, M, noOfHeaders, canonical)

\* generateCanonicalAndSignedHeaders after the parsing.
sortAndWriteHeaders(P, parsed, canonical) ==
    IF parsed.st = SigV4Success /\ ~canonical
    THEN { appendSignedHeadersIfSuccess(P,
               appendHeadersLinefeed(P,
                   appendCanonicalizedHeaders(P, [ parsed EXCEPT !.hdrs = sorted ], parsed.nHdr, canonical),
                   canonical),
               parsed.nHdr, canonical) :
           sorted \in qsort(parsed.hdrs, parsed.nHdr, cmpHeaderField) }
    ELSE { appendSignedHeadersIfSuccess(P, appendHeadersLinefeed(P, parsed, canonical),
                                        parsed.nHdr, canonical) }

\* generateCanonicalAndSignedHeaders: every memory the call may leave.
generateCanonicalAndSignedHeaders(P, M, pHeaders, canonical) ==
    UNION { sortAndWriteHeaders(P, parsed, canonical) :
            parsed \in { parseHeaderKeyValueEntries(M, pHeaders, canonical) } }

(***************************************************************************)
(* The Authorization value, the string to sign and the signing key.        *)
(***************************************************************************)

SIGV4_AWS4_HMAC_SHA256 == <<"A","W","S","4","-","H","M","A","C","-","S","H","A","2","5","6">>
AUTH_CREDENTIAL_PREFIX == <<"C","r","e","d","e","n","t","i","a","l","=">>
AUTH_SEPARATOR == <<",", " ">>
AUTH_SIGNED_HEADERS_PREFIX == <<"S","i","g","n","e","d","H","e","a","d","e","r","s","=">>
AUTH_SIGNATURE_PREFIX == <<"S","i","g","n","a","t","u","r","e","=">>
CREDENTIAL_SCOPE_TERMINATOR == <<"a","w","s","4","_","r","e","q","u","e","s","t">>
SIGV4_HMAC_SIGNING_KEY_PREFIX == <<"A","W","S","4">>
HTTP_EMPTY_PATH == <<"/">>
S3_SERVICE_NAME == <<"s","3">>
ISO_DATE_SCOPE_LEN == 8

\* The first n bytes at pDateIso8601 (what lies behind the string is indeterminate).
DateBytes(P, n) ==
    [ k \in 1..n |-> IF k <= Len(P.pDateIso8601) THEN Lit(P.pDateIso8601[k]) ELSE Junk ]

\* Store bytes at offset off of the caller's authorization buffer.
PokeAuth(P, M, off, bytes) ==
    LET n == Len(bytes)
    IN  [M EXCEPT
          !.auth = [ k \in 1..Len(M.auth) |->
                      IF k > off /\ k <= off + n
                      THEN (IF k <= P.authBufLen \/ M.beyond = "kept" THEN bytes[k - off] ELSE Junk)
                      ELSE M.auth[k] ],
          !.ev = @ \cup (IF n > 0 THEN {"auth_write"} ELSE {})
                   \cup (IF n > 0 /\ off + n > P.authBufLen THEN {"auth_oob"} ELSE {})
                   \cup (IF n > 0 /\ "pAuthBuf" \in P.nulls THEN {"crash"} ELSE {}) ]

lowercaseHexEncode(pInputStr, outputLen) ==
    IF outputLen < Len(pInputStr) * 2
    THEN [ st |-> SigV4InsufficientMemory, out |-> <<>>, len |-> outputLen ]
    ELSE [ st |-> SigV4Success, out |-> HexOf(pInputStr), len |-> Len(pInputStr) * 2 ]

\* completeHashAndHexEncode: status, hash state, the bytes written to
\* pOutput and *pOutputLen.
completeHashAndHexEncode(P, hs, pInput, outputLen) ==
    Bind(completeHash(P, hs, pInput), LAMBDA h :
         IF h.rc # 0
         THEN [ st |-> SigV4HashError, hs |-> h.hs, out |-> <<>>, len |-> outputLen ]
         ELSE Bind(lowercaseHexEncode(h.out, outputLen), LAMBDA x :
                   [ st |-> x.st, hs |-> h.hs, out |-> x.out, len |-> x.len ]))

sizeNeededForCredentialScope(P) ==
    ISO_DATE_SCOPE_LEN + 1 + Len(P.pRegion) + 1 + Len(P.pService) + 1 + Len(CREDENTIAL_SCOPE_TERMINATOR)

\* generateCredentialScope into a destination of dataLen bytes: the bytes
\* written and the dataLen it leaves in pCredScope.
generateCredentialScope(P, dataLen) ==
    IF dataLen < sizeNeededForCredentialScope(P)
    THEN [ st |-> SigV4InsufficientMemory, out |-> <<>>, len |-> dataLen ]
    ELSE [ st |-> SigV4Success,
           out |-> DateBytes(P, ISO_DATE_SCOPE_LEN) \o <<Lit(CREDENTIAL_SCOPE_SEPARATOR)>>
                   \o Str(P.pRegion) \o <<Lit(CREDENTIAL_SCOPE_SEPARATOR)>>
                   \o Str(P.pService) \o <<Lit(CREDENTIAL_SCOPE_SEPARATOR)>>
                   \o Str(CREDENTIAL_SCOPE_TERMINATOR),
           len |-> sizeNeededForCredentialScope(P) ]

\* The algorithm of the call: the default when pAlgorithm is NULL or empty.
Algorithm(P) ==
    IF "pAlgorithm" \in P.nulls \/ Len(P.pAlgorithm) = 0 THEN SIGV4_AWS4_HMAC_SHA256 ELSE P.pAlgorithm

\* The length generateAuthorizationValuePrefix computes for the prefix.
authPrefixLen(P, M) ==
    ( Len(Algorithm(P)) + 1 + Len(AUTH_CREDENTIAL_PREFIX) + Len(P.pAccessKeyId)
      + 1 + sizeNeededForCredentialScope(P)
      + Len(AUTH_SEPARATOR) + Len(AUTH_SIGNED_HEADERS_PREFIX) + M.signedHeadersLen
      + Len(AUTH_SEPARATOR) + Len(AUTH_SIGNATURE_PREFIX) ) % SizeMod

\* The bytes it writes before the credential scope, and after it.  Signed
\* headers longer than the memory modelled are a trap in the copy.
authPrefixHead(P) ==
    Str(Algorithm(P)) \o <<Lit(SPACE_CHAR)>> \o Str(AUTH_CREDENTIAL_PREFIX)
    \o Str(P.pAccessKeyId) \o <<Lit(CREDENTIAL_SCOPE_SEPARATOR)>>

authPrefixTail(M) ==
    Str(AUTH_SEPARATOR) \o Str(AUTH_SIGNED_HEADERS_PREFIX)
    \o (IF M.signedHeadersLen > Len(M.buf) THEN <<>> ELSE Peek(M, M.pSignedHeaders, M.signedHeadersLen))
    \o Str(AUTH_SEPARATOR) \o Str(AUTH_SIGNATURE_PREFIX)

writeAuthPrefix(P, M, head, scope, tail) ==
    [ PokeAuth(P, PokeAuth(P, PokeAuth(P, M, 0, head), Len(head), scope.out),
               Len(head) + scope.len, tail)
        EXCEPT !.ev = IF M.signedHeadersLen > Len(M.buf) THEN @ \cup {"crash"} ELSE @ ]

\* numOfBytesWritten at the end of generateAuthorizationValuePrefix.
numOfBytesWritten(P, M) ==
    Len(authPrefixHead(P)) + generateCredentialScope(P, M.authPrefixLen).len + Len(authPrefixTail(M))

generateAuthorizationValuePrefix(P, M) ==
    Bind(writeAuthPrefix(P,
                         Expect(M, Len(Algorithm(P)) > 0 /\ M.signedHeadersLen > 0 /\ M.authPrefixLen > 0
                                   /\ "pAuthBuf" \notin P.nulls),
                         authPrefixHead(P), generateCredentialScope(P, M.authPrefixLen), authPrefixTail(M)),
         LAMBDA M1 :
           IF M.authPrefixLen < (authPrefixLen(P, M) + P.hashDigestLen * 2) % SizeMod
           THEN SetStatus(M1, SigV4InsufficientMemory)
           ELSE [ Expect(M1, authPrefixLen(P, M) = numOfBytesWritten(P, M))
                    EXCEPT !.st = SigV4Success, !.authPrefixLen = authPrefixLen(P, M) ])

\* SigV4_GenerateHTTPAuthorization: the hash of the payload, hex-encoded at the cursor.
hashPayload(P, M) ==
    Bind(completeHashAndHexEncode(P, M.hs, Str(P.pPayload), M.rem), LAMBDA r :
         [ Poke(P, M, M.cur, r.out) EXCEPT !.hs = r.hs, !.st = r.st, !.encodedLen = r.len ])

writeStringToSignPrefix(P) ==
    Str(Algorithm(P)) \o <<Lit(LINEFEED_CHAR)>> \o DateBytes(P, SIGV4_ISO_STRING_LEN) \o <<Lit(LINEFEED_CHAR)>>

sizeNeededBeforeHash(P) ==
    Len(Algorithm(P)) + 1 + SIGV4_ISO_STRING_LEN + 1 + sizeNeededForCredentialScope(P) + 1

\* writeStringToSign after the canonical request is hashed: M holds the hex
\* digest, encodedLen bytes, just behind the cursor.
moveHashAndWritePrefix(P, M, encodedLen) ==
    IF M.st # SigV4Success THEN M
    ELSE IF sizeNeededBeforeHash(P) + P.hashDigestLen * 2 > P.bufLen
    THEN SetStatus(M, SigV4InsufficientMemory)
    ELSE Poke(P,
              [ Poke(P, M, sizeNeededBeforeHash(P), Peek(M, M.cur + 1, encodedLen))
                  EXCEPT !.cur = sizeNeededBeforeHash(P) + encodedLen,
                         !.rem = (P.bufLen - encodedLen - sizeNeededBeforeHash(P)) % SizeMod ],
              0,
              writeStringToSignPrefix(P)
              \o generateCredentialScope(P, sizeNeededForCredentialScope(P)).out
              \o <<Lit(LINEFEED_CHAR)>>)

writeStringToSign(P, M) ==
    Bind(completeHashAndHexEncode(P, M.hs, Peek(M, 0, M.cur), M.rem), LAMBDA r :
         moveHashAndWritePrefix(P, [ Poke(P, M, M.cur + 1, r.out) EXCEPT !.hs = r.hs, !.st = r.st ], r.len))

\* Model value of SIGV4_HASH_MAX_BLOCK_LENGTH and SIGV4_HASH_MAX_DIGEST_LENGTH.
SIGV4_HASH_MAX_BLOCK_LENGTH == 8
SIGV4_HASH_MAX_DIGEST_LENGTH == 4

\* The HMAC state held in the memory M.
HmacContext(M) == [ rc |-> 0, hs |-> M.hs, key |-> M.key, keyLen |-> M.keyLen ]

SetHmacContext(M, h) == [ M EXCEPT !.hs = h.hs, !.key = h.key, !.keyLen = h.keyLen ]

\* One completeHmac of generateSigningKey, made when the one before returned
\* 0: S is [M, rc]; the MAC goes to offset out of the processing buffer.
\* less says whether *pBytesRemaining -= hashDigestLen follows the call.
HmacStep(P, S, pKey, pData, out, outputLen, less) ==
    IF S.rc # 0 THEN S
    ELSE Bind(completeHmac(P, HmacContext(S.M), pKey, pData, outputLen), LAMBDA r :
         Bind(Poke(P, SetHmacContext(S.M, r), out, r.out), LAMBDA M1 :
              [ M |-> IF less THEN SubRem(M1, M1.rem, P.hashDigestLen) ELSE M1, rc |-> r.rc ]))

\* generateSigningKey after its last completeHmac.
setSigningKey(P, M, S) ==
    IF S.rc = 0
    THEN [ S.M EXCEPT !.signingKey = [ off |-> M.signingKey.off + P.hashDigestLen + 1,
                                       len |-> P.hashDigestLen ],
                      !.st = IF M.rem < P.hashDigestLen * 2 THEN SigV4InsufficientMemory
                             ELSE SigV4Success ]
    ELSE SetStatus(S.M, SigV4HashError)

\* generateSigningKey; pData is pSigningKey->pData and pSigningKeyStart the
\* second slot, one byte behind the end of the first.
generateSigningKey(P, M) ==
    Bind(hmacKey(P, HmacContext(M), Str(SIGV4_HMAC_SIGNING_KEY_PREFIX)), LAMBDA k :
    Bind(HmacStep(P, [ M |-> SetHmacContext(M, k), rc |-> k.rc ],
                  Str(P.pSecretAccessKey), DateBytes(P, ISO_DATE_SCOPE_LEN),
                  M.signingKey.off, M.signingKey.len, TRUE), LAMBDA S1 :
    Bind(HmacStep(P, S1, Peek(S1.M, M.signingKey.off, P.hashDigestLen), Str(P.pRegion),
                  M.signingKey.off + P.hashDigestLen + 1, S1.M.rem, TRUE), LAMBDA S2 :
    Bind(HmacStep(P, S2, Peek(S2.M, M.signingKey.off + P.hashDigestLen + 1, P.hashDigestLen),
                  Str(P.pService), M.signingKey.off, P.hashDigestLen, FALSE), LAMBDA S3 :
         setSigningKey(P, M,
             HmacStep(P, S3, Peek(S3.M, M.signingKey.off, P.hashDigestLen),
                      Str(CREDENTIAL_SCOPE_TERMINATOR),
                      M.signingKey.off + P.hashDigestLen + 1, P.hashDigestLen, FALSE))))))

\* SigV4_GenerateHTTPAuthorization: the HMAC of the string to sign.
signStringToSign(P, M) ==
    Bind(completeHmac(P, HmacContext(M), Peek(M, M.signingKey.off, M.signingKey.len),
                      Peek(M, 0, M.cur), P.hashDigestLen),
         LAMBDA r :
           IF r.rc # 0
           THEN SetStatus(Poke(P, SetHmacContext(M, r), M.cur, r.out), SigV4HashError)
           ELSE Poke(P, SetHmacContext(M, r), M.cur, r.out))

\* A variant that returns the length with the signature's D bytes, not its
\* 2 * D hex digits.
writeSignatureRawLength(P, M) ==
    Bind(lowercaseHexEncode(Peek(M, M.cur, P.hashDigestLen), P.authBufLen), LAMBDA x :
         [ PokeAuth(P, M, M.authPrefixLen, x.out)
             EXCEPT !.st = x.st,
                    !.pSignature = M.authPrefixLen,
                    !.signatureLen = x.len,
                    !.authBufLenOut = M.authPrefixLen + P.hashDigestLen,
                    !.ev = IF {"authBufLen", "pSignature", "signatureLen"} \cap P.nulls # {}
                           THEN @ \cup {"crash"} ELSE @ ])

\* SigV4_GenerateHTTPAuthorization: the signature in hex behind the prefix,
\* and the three values returned through pointers.
writeSignature(P, M) ==
    Bind(lowercaseHexEncode(Peek(M, M.cur, P.hashDigestLen), P.authBufLen), LAMBDA x :
         [ PokeAuth(P, M, M.authPrefixLen, x.out)
             EXCEPT !.st = x.st,
                    !.pSignature = M.authPrefixLen,
                    !.signatureLen = x.len,
                    !.authBufLenOut = M.authPrefixLen + P.hashDigestLen * 2,
                    !.ev = IF {"authBufLen", "pSignature", "signatureLen"} \cap P.nulls # {}
                           THEN @ \cup {"crash"} ELSE @ ])

verifySigV4Parameters(P) ==
    IF \/ "pParams" \in P.nulls
       \/ "pCredentials" \in P.nulls
       \/ "pAccessKeyId" \in P.nulls
       \/ "pSecretAccessKey" \in P.nulls
       \/ "pSecurityToken" \in P.nulls
       \/ "pExpiration" \in P.nulls
       \/ "pDateIso8601" \in P.nulls
       \/ "pRegion" \in P.nulls
       \/ "pService" \in P.nulls
       \/ "pCryptoInterface" \in P.nulls
       \/ "pHashContext" \in P.nulls
       \/ P.hashBlockLen > SIGV4_HASH_MAX_BLOCK_LENGTH
       \/ P.hashDigestLen > SIGV4_HASH_MAX_DIGEST_LENGTH
       \/ "pHttpParameters" \in P.nulls
       \/ "pHttpMethod" \in P.nulls
       \/ "pHeaders" \in P.nulls
    THEN SigV4InvalidParameter
    ELSE SigV4Success

(***************************************************************************)
(* The caller of the date conversion: it holds one date and converts it    *)
(* first from its RFC 3339 form, then from its RFC 5322 form.              *)
(***************************************************************************)

\* Size of the caller's output buffer: one byte more than the ISO string, so
\* that a write past the 16th byte would show.
OutBufLen == 17
FirstYear == 1900
LastYear == 9999

RECURSIVE Pow10(_)
Pow10(n) == IF n = 0 THEN 1 ELSE 10 * Pow10(n - 1)

\* The caller's decimal rendering of n in exactly width digits.
DigitsOf(n, width) ==
    [ k \in 1..width |-> Chr(Code("0") + ((n \div Pow10(width - k)) % 10)) ]

MonthAbbrev(m) ==
    IF m \in 1..12
    THEN << <<"J","a","n">>, <<"F","e","b">>, <<"M","a","r">>, <<"A","p","r">>,
            <<"M","a","y">>, <<"J","u","n">>, <<"J","u","l">>, <<"A","u","g">>,
            <<"S","e","p">>, <<"O","c","t">>, <<"N","o","v">>, <<"D","e","c">> >>[m]
    ELSE <<"X","y","z">>

\* 'YYYY-MM-DDThh:mm:ssZ'
Rfc3339Of(f) ==
    DigitsOf(f.year, 4) \o <<"-">> \o DigitsOf(f.mon, 2) \o <<"-">> \o DigitsOf(f.mday, 2)
    \o <<"T">> \o DigitsOf(f.hour, 2) \o <<":">> \o DigitsOf(f.min, 2) \o <<":">>
    \o DigitsOf(f.sec, 2) \o <<"Z">>

\* 'Day, DD Mon YYYY hh:mm:ss GMT'
Rfc5322Of(f) ==
    <<"W","e","d",","," ">> \o DigitsOf(f.mday, 2) \o <<" ">> \o MonthAbbrev(f.mon) \o <<" ">>
    \o DigitsOf(f.year, 4) \o <<" ">> \o DigitsOf(f.hour, 2) \o <<":">> \o DigitsOf(f.min, 2)
    \o <<":">> \o DigitsOf(f.sec, 2) \o <<" ","G","M","T">>

\* Dates around every boundary the validation has.
BoundaryDates ==
    [ year : {1899, 1900, 1998, 2000, 2004, 2100},
      mon  : 0..13,
      mday : {0, 1, 28, 29, 30, 31, 32},
      hour : {0, 23, 24},
      min  : {59, 60},
      sec  : {60, 61} ]

\* The last days of February of every year the four digits can carry.
FebruaryDates ==
    [ year : { y \in FirstYear..LastYear : y < Pow10(ISO_YEAR_LEN) },
      mon  : {2},
      mday : {28, 29},
      hour : {12},
      min  : {34},
      sec  : {56} ]

DateFields == BoundaryDates \cup FebruaryDates

NoFields == [ year |-> 0, mon |-> 0, mday |-> 0, hour |-> 0, min |-> 0, sec |-> 0 ]
NoDateReq == [ pDate |-> <<>>, dateNull |-> FALSE, pDateISO8601 |-> <<>>, outNull |-> FALSE ]
NoDateRes == [ status |-> "none", out |-> <<>> ]

DateReq(str) ==
    [ pDate |-> str, dateNull |-> FALSE,
      pDateISO8601 |-> [ k \in 1..OutBufLen |-> "?" ], outNull |-> FALSE ]

InitDate ==
    /\ pc = "date_call"
    /\ dFields \in DateFields
    /\ dReq = DateReq(Rfc3339Of(dFields))
    /\ dRes = NoDateRes
    /\ dHist = <<>>
    /\ params = <<>>
    /\ mem = <<>>

\* One call of SigV4_AwsIotDateToIso8601.
DateCall ==
    /\ pc = "date_call"
    /\ dRes' = SigV4_AwsIotDateToIso8601(dReq)
    /\ dHist' = Append(dHist, <<dReq, dRes'>>)
    /\ pc' = "date_returned"
    /\ UNCHANGED <<dFields, dReq, params, mem>>

\* The caller converts the same date from its RFC 5322 form.
DateNext ==
    /\ pc = "date_returned"
    /\ Len(dHist) < 2
    /\ dReq' = DateReq(Rfc5322Of(dFields))
    /\ pc' = "date_call"
    /\ UNCHANGED <<dFields, dRes, dHist, params, mem>>

NextDate == DateCall \/ DateNext

SpecDate == InitDate /\ [][NextDate]_vars

(***************************************************************************)
(* Properties of the date conversion (checked under SpecDate).             *)
(***************************************************************************)

\* The 16 characters 'YYYYMMDDThhmmssZ' made of the digits of an RFC 3339 string.
Iso8601Of(s) ==
    SubSeq(s, 1, 4) \o SubSeq(s, 6, 7) \o SubSeq(s, 9, 10) \o <<"T">>
    \o SubSeq(s, 12, 13) \o SubSeq(s, 15, 16) \o SubSeq(s, 18, 19) \o <<"Z">>

\* The bytes of the output buffer a call must leave alone.
Untouched(req) == SubSeq(req.pDateISO8601, SIGV4_ISO_STRING_LEN + 1, Len(req.pDateISO8601))

IsLeapYear(y) == (y % 4 = 0 /\ y % 100 # 0) \/ y % 400 = 0

DaysIn(m, y) ==
    CASE m \in {1, 3, 5, 7, 8, 10, 12} -> 31
      [] m \in {4, 6, 9, 11} -> 30
      [] m = 2 -> IF IsLeapYear(y) THEN 29 ELSE 28
      [] OTHER -> 0

ValidDate(f) ==
    /\ f.year >= 1900
    /\ f.mon \in 1..12
    /\ f.mday >= 1 /\ f.mday <= DaysIn(f.mon, f.year)
    /\ f.hour <= 23
    /\ f.min <= 59
    /\ f.sec <= 60

\* C9: every accepted RFC 3339 input 'YYYY-MM-DDThh:mm:ssZ' yields exactly the
\* 16 bytes 'YYYYMMDDThhmmssZ' with the same digits (the rest of the output
\* buffer is left alone), and the RFC 5322 form of the same date is then
\* accepted too and yields the identical 16 bytes.
C9_DateRoundTrip ==
    /\ \A k \in 1..Len(dHist) :
          LET req == dHist[k][1]
              res == dHist[k][2]
          IN  (Len(req.pDate) = SIGV4_EXPECTED_LEN_RFC_3339 /\ res.status = SigV4Success)
                 => res.out = Iso8601Of(req.pDate) \o Untouched(req)
    /\ (Len(dHist) = 2 /\ dHist[1][2].status = SigV4Success)
          => /\ dHist[2][1].pDate = Rfc5322Of(dFields)
             /\ dHist[2][2].status = SigV4Success
             /\ dHist[2][2].out = dHist[1][2].out

\* C9 witness: 29 Feb 2004 has been converted from both forms.
C9_Witness ==
    /\ Len(dHist) = 2
    /\ dFields.year = 2004 /\ dFields.mon = 2 /\ dFields.mday = 29
    /\ dHist[1][2].status = SigV4Success
    /\ dHist[2][2].status = SigV4Success
    /\ SubSeq(dHist[2][2].out, 1, 16)
         = <<"2","0","0","4","0","2","2","9","T","1","2","3","4","5","6","Z">>

\* C10: a call whose input has the literals and digit fields (or a month
\* abbreviation) in place returns Success exactly when the date is valid
\* (year >= 1900, month 1..12, day 1..daysIn(month) with 29 Feb only in leap
\* years, hour <= 23, minute <= 59, second <= 60) and ISOFormattingError
\* otherwise.
C10_DateValidation ==
    \A k \in 1..Len(dHist) :
        LET req == dHist[k][1]
            res == dHist[k][2]
            wellFormed == \/ req.pDate = Rfc3339Of(dFields)
                          \/ (req.pDate = Rfc5322Of(dFields) /\ dFields.mon \in 1..12)
        IN  wellFormed =>
              /\ (res.status = SigV4Success) <=> ValidDate(dFields)
              /\ res.status \in {SigV4Success, SigV4ISOFormattingError}

\* C10 witness: 29 Feb is accepted in 2000 from the RFC 5322 form.
C10_Witness ==
    /\ Len(dHist) = 2
    /\ dFields.year = 2000 /\ dFields.mon = 2 /\ dFields.mday = 29
    /\ dHist[2][1].pDate = Rfc5322Of(dFields)
    /\ dHist[2][2].status = SigV4Success

(***************************************************************************)
(* The date conversion called with arguments of every kind: pointers that  *)
(* are NULL, inputs of the wrong length, inputs that do not follow the     *)
(* format, output buffers that are too small.                              *)
(***************************************************************************)

\* A valid date, a month that does not exist, a day that does not exist.
ArgDates ==
    { [ year |-> 2021, mon |-> 12, mday |-> 31, hour |-> 23, min |-> 59, sec |-> 60 ],
      [ year |-> 2021, mon |-> 13, mday |-> 1, hour |-> 0, min |-> 0, sec |-> 0 ],
      [ year |-> 1900, mon |-> 2, mday |-> 29, hour |-> 1, min |-> 2, sec |-> 3 ] }

\* The date strings a caller may pass for the date f.
ArgStrings(f) ==
    { Rfc3339Of(f), Rfc5322Of(f), <<>>,
      SubSeq(Rfc3339Of(f), 1, SIGV4_EXPECTED_LEN_RFC_3339 - 1),
      Rfc3339Of(f) \o <<"Z">>,
      SubSeq(Rfc5322Of(f), 1, SIGV4_EXPECTED_LEN_RFC_5322 - 1),
      Rfc5322Of(f) \o <<" ">>,
      [ Rfc3339Of(f) EXCEPT ![5] = "/" ],
      [ Rfc3339Of(f) EXCEPT ![1] = "x" ],
      [ Rfc5322Of(f) EXCEPT ![9] = "Q" ] }

\* The capacities of the output buffer a caller may pass.
ArgCapacities ==
    { 0, SIGV4_ISO_STRING_LEN - 1, SIGV4_ISO_STRING_LEN, OutBufLen }

InitDateArgs ==
    /\ pc = "date_call"
    /\ dFields \in ArgDates
    /\ dReq \in { [ pDate |-> str, dateNull |-> dn,
                    pDateISO8601 |-> [ k \in 1..cap |-> "?" ], outNull |-> on ] :
                  str \in ArgStrings(dFields), dn \in BOOLEAN,
                  cap \in ArgCapacities, on \in BOOLEAN }
    /\ dRes = NoDateRes
    /\ dHist = <<>>
    /\ params = <<>>
    /\ mem = <<>>

SpecDateArgs == InitDateArgs /\ [][DateCall]_vars

\* The arguments SigV4_AwsIotDateToIso8601 must reject.
BadDateArgs(req) ==
    \/ req.dateNull
    \/ req.outNull
    \/ Len(req.pDate) \notin { 20, 29 }
    \/ Len(req.pDateISO8601) < 16

\* C11: a call with a null input or output pointer, an input length other
\* than 20 and 29, or an output capacity below 16 returns InvalidParameter;
\* every call that does not return Success leaves the output buffer as it
\* was; a call that returns Success has written the bytes at offsets 0..15
\* and no other.
C11_DateArgumentsAndFrame ==
    \A k \in 1..Len(dHist) :
        LET req == dHist[k][1]
            res == dHist[k][2]
        IN  /\ res.status \in { SigV4Success, SigV4InvalidParameter, SigV4ISOFormattingError }
            /\ BadDateArgs(req) => res.status = SigV4InvalidParameter
            /\ res.status # SigV4Success => res.out = req.pDateISO8601
            /\ res.status = SigV4Success =>
                  /\ Len(res.out) = Len(req.pDateISO8601)
                  /\ \A i \in 1..Len(res.out) :
                        IF i <= 16 THEN res.out[i] # "?" ELSE res.out[i] = req.pDateISO8601[i]

\* C11 witness: 29 Feb 1900, passed in RFC 3339 form with a buffer of more
\* than 16 bytes, has been refused with ISOFormattingError.
C11_Witness ==
    /\ Len(dHist) = 1
    /\ dFields.year = 1900
    /\ dHist[1][1] = DateReq(Rfc3339Of(dFields))
    /\ dHist[1][2].status = SigV4ISOFormattingError
    /\ dHist[1][2].out = [ k \in 1..OutBufLen |-> "?" ]

(***************************************************************************)
(* The signing call SigV4_GenerateHTTPAuthorization as a state machine.    *)
(* pc is the step of the function that runs next; "done" is the return     *)
(* with status mem.st, "aborted" a failed assert() in a build that keeps   *)
(* assertions, "crashed" a trap.                                           *)
(***************************************************************************)

SIGV4_HTTP_PATH_IS_CANONICAL_FLAG == 1
SIGV4_HTTP_QUERY_IS_CANONICAL_FLAG == 2
SIGV4_HTTP_HEADERS_ARE_CANONICAL_FLAG == 4
SIGV4_HTTP_ALL_ARE_CANONICAL_FLAG == 8

\* flags & bit
HasFlag(flags, bit) == (flags \div bit) % 2 = 1

\* The memory of a call that has not run yet.
InitMem(P) ==
    [ buf |-> [ k \in 1..(P.bufLen + BeyondLen) |-> Junk ],
      cur |-> 0, rem |-> 0,
      hdrs |-> [ k \in 1..SIGV4_MAX_HTTP_HEADER_COUNT |-> NoPair ], nHdr |-> 0,
      qrys |-> [ k \in 1..(SIGV4_MAX_QUERY_PAIR_COUNT + 1) |-> NoPair ], nQry |-> 0,
      st |-> SigV4Success, ev |-> {}, beyond |-> "?", asserts |-> "?",
      pSignedHeaders |-> 0, signedHeadersLen |-> 0,
      hs |-> NoHash,
      key |-> [ k \in 1..SIGV4_HASH_MAX_BLOCK_LENGTH |-> Lit("NUL") ], keyLen |-> 0,
      auth |-> [ k \in 1..(P.authBufLen + BeyondLen) |-> Junk ],
      authPrefixLen |-> 0, encodedLen |-> 0,
      signingKey |-> [ off |-> 0, len |-> 0 ],
      pSignature |-> -1, signatureLen |-> -1, authBufLenOut |-> P.authBufLen ]

\* generateCanonicalRequestUntilHeaders, the method line.
writeMethod(P, M) ==
    { writeLineToCanonicalRequest(P, [ M EXCEPT !.cur = 0, !.rem = P.bufLen ],
                                  FALSE, Str(P.pHttpMethod)) }

\* generateCanonicalRequestUntilHeaders, the URI line.
writePath(P, M) ==
    LET pPath == IF "pPath" \in P.nulls \/ Len(P.pPath) = 0 THEN HTTP_EMPTY_PATH ELSE P.pPath
    IN  IF HasFlag(P.flags, SIGV4_HTTP_PATH_IS_CANONICAL_FLAG)
        THEN { writeLineToCanonicalRequest(P, M, FALSE, Str(pPath)) }
        ELSE IF Len(P.pService) = Len(S3_SERVICE_NAME)
                /\ strncmp(P.pService, S3_SERVICE_NAME, Len(S3_SERVICE_NAME)) = 0
        THEN { generateCanonicalURI(P, M, Str(pPath), FALSE) }
        ELSE { generateCanonicalURI(P, M, Str(pPath), TRUE) }

\* generateCanonicalRequestUntilHeaders, the query line.
writeQuery(P, M) ==
    IF HasFlag(P.flags, SIGV4_HTTP_QUERY_IS_CANONICAL_FLAG)
    THEN { writeLineToCanonicalRequest(P, M, "pQuery" \in P.nulls, Str(P.pQuery)) }
    ELSE generateCanonicalQuery(P, M, P.pQuery)

\* generateCanonicalRequestUntilHeaders, the headers and the signed headers.
writeHeaders(P, M) ==
    IF HasFlag(P.flags, SIGV4_HTTP_HEADERS_ARE_CANONICAL_FLAG)
    THEN UNION { IF M1.st # SigV4Success THEN { M1 }
                 ELSE generateCanonicalAndSignedHeaders(P, M1, P.pHeaders, TRUE) :
                 M1 \in { writeLineToCanonicalRequest(P, M, FALSE, Str(P.pHeaders)) } }
    ELSE generateCanonicalAndSignedHeaders(P, M, P.pHeaders, FALSE)

\* What a read through a NULL pointer may yield where it does not trap.
Indeterminate == { 0, SIZE_MAX }

\* SigV4_GenerateHTTPAuthorization up to the default arguments.
checkParameters(P, M) ==
    LET deref == {"pParams", "authBufLen"} \cap P.nulls # {}
    IN  { [ M EXCEPT !.st = verifySigV4Parameters(P),
                     !.authPrefixLen = v,
                     !.ev = IF deref THEN @ \cup {"null_deref"} ELSE @ ] :
          v \in IF "authBufLen" \in P.nulls THEN Indeterminate ELSE { P.authBufLen } }

\* SigV4_GenerateHTTPAuthorization from the cursor update to writeStringToSign.
stringToSign(P, M) ==
    { writeStringToSign(P, SubRem([ M EXCEPT !.cur = @ + M.encodedLen ], M.rem, M.encodedLen)) }

signingKey(P, M) ==
    { generateSigningKey(P, [ M EXCEPT !.signingKey = [ off |-> M.cur, len |-> M.rem ] ]) }

\* The states a step may lead to: R is the memory its code leaves, with the
\* events of this step in R.ev.
Outcomes(M, R, to) ==
    LET oob == {"oob_write", "auth_oob"} \cap R.ev # {}
        R1 == [ R EXCEPT !.ev = M.ev \cup R.ev,
                         !.beyond = IF M.beyond = "?" /\ ~oob THEN "?" ELSE @ ]
        trap == "crash" \in R.ev \/ R.hs.bad
        failed == "assert" \in R.ev /\ M.asserts # "off"
    IN  (IF trap \/ "null_deref" \in R.ev THEN { <<"crashed", R1>> } ELSE {})
        \cup (IF failed THEN { <<"aborted", [ R1 EXCEPT !.asserts = "on" ]>> } ELSE {})
        \cup (IF trap THEN {}
              ELSE { << IF R.st = SigV4Success THEN to ELSE "done",
                        [ R1 EXCEPT !.asserts = IF failed THEN "off" ELSE @ ] >> })

\* Every <<pc, mem>> that the step whose code is Op may lead to from the
\* current state.  The build's treatment of a write past a buffer is decided
\* by the first step that makes one.
Run(Op(_, _), to) ==
    UNION { UNION { Outcomes(mem, R, to) : R \in Op(params, [ mem EXCEPT !.beyond = b, !.ev = {} ]) } :
            b \in (IF mem.beyond = "?" THEN {"kept", "lost"} ELSE { mem.beyond }) }

Verify ==
    /\ pc = "verify"
    /\ \E o \in Run(checkParameters, "method") :
         pc' = o[1] /\ mem' = o[2]
    /\ UNCHANGED <<params, dFields, dReq, dRes, dHist>>

Method ==
    /\ pc = "method"
    /\ \E o \in Run(writeMethod, "path") :
         pc' = o[1] /\ mem' = o[2]
    /\ UNCHANGED <<params, dFields, dReq, dRes, dHist>>

Path ==
    /\ pc = "path"
    /\ \E o \in Run(writePath, "query") :
         pc' = o[1] /\ mem' = o[2]
    /\ UNCHANGED <<params, dFields, dReq, dRes, dHist>>

Query ==
    /\ pc = "query"
    /\ \E o \in Run(writeQuery, "headers") :
         pc' = o[1] /\ mem' = o[2]
    /\ UNCHANGED <<params, dFields, dReq, dRes, dHist>>

Headers ==
    /\ pc = "headers"
    /\ \E o \in Run(writeHeaders, "authPrefix") :
         pc' = o[1] /\ mem' = o[2]
    /\ UNCHANGED <<params, dFields, dReq, dRes, dHist>>

AuthPrefix ==
    /\ pc = "authPrefix"
    /\ \E o \in Run(LAMBDA P, M : { generateAuthorizationValuePrefix(P, M) }, "payload") :
         pc' = o[1] /\ mem' = o[2]
    /\ UNCHANGED <<params, dFields, dReq, dRes, dHist>>

Payload ==
    /\ pc = "payload"
    /\ \E o \in Run(LAMBDA P, M : { hashPayload(P, M) }, "stringToSign") :
         pc' = o[1] /\ mem' = o[2]
    /\ UNCHANGED <<params, dFields, dReq, dRes, dHist>>

StringToSign ==
    /\ pc = "stringToSign"
    /\ \E o \in Run(stringToSign, "signingKey") :
         pc' = o[1] /\ mem' = o[2]
    /\ UNCHANGED <<params, dFields, dReq, dRes, dHist>>

SigningKey ==
    /\ pc = "signingKey"
    /\ \E o \in Run(signingKey, "signature") :
         pc' = o[1] /\ mem' = o[2]
    /\ UNCHANGED <<params, dFields, dReq, dRes, dHist>>

Signature ==
    /\ pc = "signature"
    /\ \E o \in Run(LAMBDA P, M : { signStringToSign(P, M) }, "hex") :
         pc' = o[1] /\ mem' = o[2]
    /\ UNCHANGED <<params, dFields, dReq, dRes, dHist>>

HexSignature ==
    /\ pc = "hex"
    /\ \E o \in Run(LAMBDA P, M : { writeSignature(P, M) }, "done") :
         pc' = o[1] /\ mem' = o[2]
    /\ UNCHANGED <<params, dFields, dReq, dRes, dHist>>

\* Sizes of the buffers of the valid request, and of the requests that use
\* the default algorithm or a long region.
BaseBufLen == 64
BaseAuthBufLen == 80
WideBufLen == 84
WideAuthBufLen == 120

\* A valid request.
BaseParams ==
    [ nulls |-> {},
      pAlgorithm |-> <<"A">>,
      pAccessKeyId |-> <<"K">>,
      pSecretAccessKey |-> <<"x", "y">>,
      pDateIso8601 |-> <<"2","0","2","2","0","1","0","2","T","0","3","0","4","0","5","Z">>,
      pRegion |-> <<"r">>,
      pService |-> <<"s">>,
      pHttpMethod |-> <<"G","E","T">>,
      pPath |-> <<"/">>,
      pQuery |-> <<>>,
      pHeaders |-> <<"h", ":", "v", "\r", "\n">>,
      pPayload |-> <<>>,
      flags |-> 0,
      hashBlockLen |-> 4, hashDigestLen |-> 2,
      failKind |-> "none", failAt |-> 0,
      bufLen |-> BaseBufLen, authBufLen |-> BaseAuthBufLen ]

\* Largest index of a failing hash call, largest size of the sweeps.
MaxFailAt == 20
MaxFill == 12

Rep(c, n) == [ k \in 1..n |-> c ]

Wide(P) == [ P EXCEPT !.bufLen = WideBufLen, !.authBufLen = WideAuthBufLen ]

NullNames ==
    { "pParams", "pAuthBuf", "authBufLen", "pSignature", "signatureLen", "pCredentials",
      "pAccessKeyId", "pSecretAccessKey", "pSecurityToken", "pExpiration", "pDateIso8601",
      "pRegion", "pService", "pCryptoInterface", "pHashContext", "hashInit", "hashUpdate",
      "hashFinal", "pHttpParameters", "pHttpMethod", "pHeaders",
      "pAlgorithm", "pPath", "pQuery", "pPayload" }

\* The string behind a pointer that is NULL has length 0.
WithNull(P, name) ==
    LET Q == [ P EXCEPT !.nulls = @ \cup {name} ]
    IN  IF name \in { "pAccessKeyId", "pSecretAccessKey", "pDateIso8601", "pRegion", "pService",
                      "pHttpMethod", "pHeaders", "pAlgorithm", "pPath", "pQuery", "pPayload" }
        THEN [ Q EXCEPT ![name] = <<>> ]
        ELSE Q

Paths == { <<"/">>, <<>>, <<"/", "a", " ", "b">>, <<"/", "x", "=", "y">> }
Queries ==
    { <<>>, <<"a">>, <<"b","=","2","&","a","=","1">>, <<"k","=","v","=","w">>,
      <<"a","=","1","&","a","=","0">>, <<"a","=","/","&","a">> }
HeaderSets ==
    { <<"h",":","v","\r","\n">>,
      <<"B",":"," ","x"," "," ","y"," ","\r","\n","A",":","1","\r","\n">>,
      <<"a","b",":","1","\r","\n","a",":","2","\r","\n">>,
      <<"a",":","2","\r","\n","a","b",":","1","\r","\n">> }

\* Valid requests in many shapes.
HappyRequests ==
    { [ BaseParams EXCEPT !.pService = sv, !.pPath = pa, !.pQuery = q ] :
        sv \in { <<"s">>, <<"s","3">>, <<"s","4">> }, pa \in Paths, q \in Queries }
    \cup { [ BaseParams EXCEPT !.pHeaders = h, !.pPayload = pl, !.pQuery = q ] :
        h \in HeaderSets, pl \in { <<>>, <<"p">> }, q \in { <<>>, <<"b","=","2","&","a","=","1">> } }
    \cup { [ BaseParams EXCEPT !.hashDigestLen = d[1], !.hashBlockLen = d[2], !.pSecretAccessKey = k ] :
        d \in { <<2, 4>>, <<2, 8>>, <<4, 8>>, <<SIGV4_HASH_MAX_DIGEST_LENGTH, SIGV4_HASH_MAX_BLOCK_LENGTH>> },
        k \in { <<"x","y">>, <<"0","1","2","3","4","5","6","7","8","9">> } }
    \cup { Wide([ (IF n THEN WithNull(BaseParams, "pAlgorithm") ELSE [ BaseParams EXCEPT !.pAlgorithm = <<>> ])
                  EXCEPT !.pPath = pa ]) :
        n \in BOOLEAN, pa \in Paths }
    \cup { [ BaseParams EXCEPT !.flags = f, !.pPath = <<"/","a">>, !.pQuery = <<"a","=","1">>,
                               !.pHeaders = <<"h",":","v","\n">> ] :
        f \in { SIGV4_HTTP_PATH_IS_CANONICAL_FLAG, SIGV4_HTTP_QUERY_IS_CANONICAL_FLAG,
                SIGV4_HTTP_HEADERS_ARE_CANONICAL_FLAG,
                SIGV4_HTTP_PATH_IS_CANONICAL_FLAG + SIGV4_HTTP_QUERY_IS_CANONICAL_FLAG
                  + SIGV4_HTTP_HEADERS_ARE_CANONICAL_FLAG } }

\* Requests with one input missing or empty, or with an oversized hash.
InvalidRequests ==
    { WithNull(BaseParams, n) : n \in NullNames }
    \cup { WithNull(WithNull(BaseParams, "pSecurityToken"), "pExpiration") }
    \cup { [ BaseParams EXCEPT ![f] = <<>> ] :
             f \in { "pHttpMethod", "pHeaders", "pAccessKeyId", "pSecretAccessKey", "pRegion", "pService" } }
    \cup { [ BaseParams EXCEPT !.hashBlockLen = SIGV4_HASH_MAX_BLOCK_LENGTH + 1 ],
           [ BaseParams EXCEPT !.hashDigestLen = SIGV4_HASH_MAX_DIGEST_LENGTH + 1 ] }

\* Requests during which one call of the hash interface fails.
HashFailRequests ==
    { [ BaseParams EXCEPT !.failKind = k, !.failAt = n, !.hashBlockLen = b ] :
        k \in { "init", "update", "final" }, n \in 0..MaxFailAt, b \in { 4, SIGV4_HASH_MAX_BLOCK_LENGTH } }

\* Requests that do or do not fit the processing buffer or the caller's buffer.
SizeRequests ==
    { [ BaseParams EXCEPT !.bufLen = n ] : n \in 1..(BaseBufLen + 2) }
    \cup { [ BaseParams EXCEPT !.authBufLen = n ] : n \in 0..BaseAuthBufLen }
    \cup { [ BaseParams EXCEPT !.pHttpMethod = Rep("M", BaseBufLen - 24 + n), !.pPayload = pl ] :
             n \in 0..MaxFill, pl \in { <<>>, <<"p">> } }
    \cup { [ BaseParams EXCEPT !.pHttpMethod = Rep("M", BaseBufLen - 12 + n),
                               !.pPath = pa, !.pQuery = q, !.pService = sv ] :
             n \in 0..MaxFill, pa \in { <<"/">>, <<"/","p","p","p">>, <<"/","p"," ","p">> },
             q \in { <<>>, <<"a","=","q">> }, sv \in { <<"s">>, <<"s","3">> } }
    \cup { [ BaseParams EXCEPT !.pRegion = Rep("r", BaseBufLen - 52 + n), !.authBufLen = WideAuthBufLen ] :
             n \in 0..MaxFill }

\* n header lines 'a:1', 'b:1', ... each ended by eol, and n query parameters
\* 'a=1&b=1&...'.
RECURSIVE HeaderLines(_, _)
HeaderLines(n, eol) ==
    IF n = 0 THEN <<>>
    ELSE HeaderLines(n - 1, eol) \o << Chr(Code("a") + n - 1), ":", "1" >> \o eol

RECURSIVE QueryPairs(_)
QueryPairs(n) ==
    IF n = 0 THEN <<>>
    ELSE (IF n = 1 THEN <<>> ELSE QueryPairs(n - 1) \o <<"&">>) \o << Chr(Code("a") + n - 1), "=", "1" >>

\* Requests with as many headers or query parameters as the configuration
\* allows, and with one more.
LimitRequests ==
    { Wide([ BaseParams EXCEPT !.pHeaders = HeaderLines(SIGV4_MAX_HTTP_HEADER_COUNT + n, <<"\r", "\n">>) \o e ]) :
        n \in { 0, 1 }, e \in { <<>>, <<"\r", "\n">> } }
    \cup { Wide([ BaseParams EXCEPT !.pHeaders = HeaderLines(SIGV4_MAX_HTTP_HEADER_COUNT + n, <<"\n">>),
                                    !.flags = SIGV4_HTTP_HEADERS_ARE_CANONICAL_FLAG ]) :
        n \in { 0, 1 } }
    \cup { Wide([ BaseParams EXCEPT !.pQuery = QueryPairs(SIGV4_MAX_QUERY_PAIR_COUNT + n) ]) :
        n \in { 0, 1 } }

\* Requests whose one header has spaces and tabs around and inside its key
\* and its value.
TrimHeaders ==
    { <<" "," ","H","-","1"," ",":"," "," ","V","a","l"," "," ","-"," "," ","1"," "," ","\r","\n">>,
      <<"k",":","a","\t","b","\r","\n">>,
      <<"k",":","a"," ","\t"," ","b","\r","\n">>,
      <<"k",":","a"," ","\t","b","\r","\n">>,
      <<"\t","K","\t",":","\t","V","\t","\r","\n">>,
      <<"K"," ","y",":","V","\r","\n">> }

TrimRequests == { Wide([ BaseParams EXCEPT !.pHeaders = h ]) : h \in TrimHeaders }

\* Requests whose query has parameters without a value, with an empty value,
\* with '=' inside a value and with '&' at its end.
ParseQueries ==
    { <<"a","=","&","b","=","1">>, <<"a","=","1","&">>, <<"a","=">>, <<"a">>,
      <<"a","&","b","=","1">>, <<"a","=","b","=","c">>, <<"b","=","2","&","a","=","1">>,
      <<"a","=","1","&","&","b","=","2">> }

ParseRequests == { Wide([ BaseParams EXCEPT !.pQuery = q ]) : q \in ParseQueries }

\* Requests whose query has three parameters, in every order: two with one
\* field, fields and values that begin with another one, values that differ
\* after a zero byte.
SortSegments ==
    { << <<"p","=","v","2">>, <<"p","=","v","1">>, <<"p","1","=","t">> >>,
      << <<"a","=","1">>, <<"a","=","1","2">>, <<"a","b","=","0">> >>,
      << <<"B","=","1">>, <<"a","=","1">>, <<"a","=","1">> >>,
      << <<"b","=","1">>, <<"a","=","NUL","y">>, <<"a","=","NUL","x">> >> }

SortQueries ==
    { segs[p[1]] \o <<"&">> \o segs[p[2]] \o <<"&">> \o segs[p[3]] :
        segs \in SortSegments, p \in Perms(3) }

SortRequests == { Wide([ BaseParams EXCEPT !.pQuery = q ]) : q \in SortQueries }

\* Requests whose headers end in a key without ':' or in a value without
\* its line end.
MalformedHeaders ==
    { <<"a","b","c">>, <<"h",":","v">>, <<"h",":","v","\r">>,
      <<"h",":","v","\r","\n","a","b","c">>, <<"h",":","v","\r","\n","k",":","w">> }

MalformedCanonicalHeaders ==
    { <<"h",":","v">>, <<"h",":","v","\n","k">>, <<"h",":","v","\n","k",":","w">> }

MalformedRequests ==
    { Wide([ BaseParams EXCEPT !.pHeaders = h ]) : h \in MalformedHeaders }
    \cup { Wide([ BaseParams EXCEPT !.pHeaders = h, !.flags = SIGV4_HTTP_HEADERS_ARE_CANONICAL_FLAG ]) :
             h \in MalformedCanonicalHeaders }

Requests ==
    HappyRequests \cup InvalidRequests \cup HashFailRequests \cup SizeRequests \cup LimitRequests
    \cup TrimRequests \cup ParseRequests \cup SortRequests
    \cup MalformedRequests

Init ==
    /\ pc = "verify"
    /\ params \in Requests
    /\ mem = InitMem(params)
    /\ dFields = NoFields
    /\ dReq = NoDateReq
    /\ dRes = NoDateRes
    /\ dHist = <<>>

Next ==
    \/ Verify \/ Method \/ Path \/ Query \/ Headers \/ AuthPrefix
    \/ Payload \/ StringToSign \/ SigningKey \/ Signature \/ HexSignature

Spec == Init /\ [][Next]_vars

(***************************************************************************)
(* Properties of the signing call (checked under Spec).                    *)
(***************************************************************************)

\* The call has returned with the given status.
Returned(status) == pc = "done" /\ mem.st = status

\* The inputs SigV4_GenerateHTTPAuthorization requires, and those of them
\* that are strings with a length.
RequiredInputs ==
    { "pParams", "pAuthBuf", "authBufLen", "pSignature", "signatureLen", "pCredentials",
      "pAccessKeyId", "pSecretAccessKey", "pDateIso8601", "pRegion", "pService",
      "pCryptoInterface", "hashInit", "hashUpdate", "hashFinal",
      "pHttpParameters", "pHttpMethod", "pHeaders" }
RequiredStrings ==
    { "pHttpMethod", "pHeaders", "pAccessKeyId", "pSecretAccessKey", "pRegion", "pService" }

\* A required input of the request is NULL, or a required string is empty.
MissingInput(P) ==
    \/ P.nulls \cap RequiredInputs # {}
    \/ \E f \in RequiredStrings : Len(P[f]) = 0

\* The request but for the inputs the interface calls optional.
Required(P) == [ P EXCEPT !.nulls = @ \ {"pSecurityToken", "pExpiration"} ]

\* No byte of the processing buffer or of the caller's buffer has been written.
NothingWritten ==
    /\ \A k \in DOMAIN mem.buf : mem.buf[k] = Junk
    /\ \A k \in DOMAIN mem.auth : mem.auth[k] = Junk
    /\ mem.pSignature = -1 /\ mem.signatureLen = -1 /\ mem.authBufLenOut = params.authBufLen

\* C6: a call whose credentials have a null security token and a null
\* expiration, and whose every other parameter is valid, returns Success:
\* it is not rejected with InvalidParameter.
C6_OptionalTokenAndExpiration ==
    ( /\ pc = "done"
      /\ params.nulls = {"pSecurityToken", "pExpiration"}
      /\ Required(params) = BaseParams )
    => mem.st = SigV4Success

\* C7: whenever a required input is NULL or a required string has length
\* zero, the call returns InvalidParameter, before it reads through the
\* missing input and before it writes to any buffer.
C7_InvalidParameterFirst ==
    (MissingInput(params) /\ pc # "verify")
    => (Returned(SigV4InvalidParameter) /\ mem.ev = {} /\ NothingWritten)

\* Some call of the hash interface returned non-zero.
HashCallFailed == \E n \in DOMAIN mem.hs.calls : mem.hs.calls[n][2] # 0

\* C8: the call returns HashError if and only if some call of hashInit,
\* hashUpdate or hashFinal returned non-zero; a shortage of processing
\* buffer, also of the 2 * D bytes of the signing-key slots, is
\* InsufficientMemory and never HashError.
C8_HashErrorIffHashFailed ==
    pc = "done" => (mem.st = SigV4HashError <=> HashCallFailed)

(***************************************************************************)
(* What the interface promises, written from the request alone.  H is the  *)
(* hash as a function: RefHash(x) is the digest the hash returned for the  *)
(* input x (a digest no call has returned when x was never hashed).        *)
(***************************************************************************)

RefHash(x) == Digest(IdOf(mem.hs.log, x), params.hashDigestLen)

\* K0 of HMAC: the key, hashed when it is longer than a block, zero-padded
\* to a block.
RefBlockKey(K) ==
    [ k \in 1..params.hashBlockLen |->
        IF Len(K) <= params.hashBlockLen
        THEN (IF k <= Len(K) THEN K[k] ELSE Lit("NUL"))
        ELSE (IF k <= params.hashDigestLen THEN RefHash(K)[k] ELSE Lit("NUL")) ]

\* H((K0 xor opad) || H((K0 xor ipad) || data))
RefHmacOfBlock(K0, data) ==
    RefHash([ k \in DOMAIN K0 |-> [ K0[k] EXCEPT !.x = "opad" ] ]
            \o RefHash([ k \in DOMAIN K0 |-> [ K0[k] EXCEPT !.x = "ipad" ] ] \o data))

RefHmac(K, data) == RefHmacOfBlock(RefBlockKey(K), data)

RefAlgorithm(P) ==
    IF "pAlgorithm" \in P.nulls \/ Len(P.pAlgorithm) = 0
    THEN <<"A","W","S","4","-","H","M","A","C","-","S","H","A","2","5","6">>
    ELSE P.pAlgorithm

\* YYYYMMDD/region/service/aws4_request
RefScope(P) ==
    SubSeq(P.pDateIso8601, 1, 8) \o <<"/">> \o P.pRegion \o <<"/">> \o P.pService
    \o <<"/", "a","w","s","4","_","r","e","q","u","e","s","t">>

\* HMAC(HMAC(HMAC(HMAC("AWS4" || secret, YYYYMMDD), region), service), "aws4_request")
RefSigningKey(P) ==
    RefHmac(RefHmac(RefHmac(RefHmac(Str(<<"A","W","S","4">> \o P.pSecretAccessKey),
                                    Str(SubSeq(P.pDateIso8601, 1, 8))),
                            Str(P.pRegion)),
                    Str(P.pService)),
            Str(<<"a","w","s","4","_","r","e","q","u","e","s","t">>))

\* The bytes hashed as the canonical request: the input of the second
\* digest of the call (the first is the payload's).
HashedRequest == mem.hs.fin[2]

\* ALGO LF ISO8601 LF scope LF hex(H(canonical request))
RefStringToSign(P) ==
    Str(RefAlgorithm(P) \o <<"\n">> \o P.pDateIso8601 \o <<"\n">> \o RefScope(P) \o <<"\n">>)
    \o HexOf(RefHash(HashedRequest))

\* The lines of a byte string: line j lies between the linefeeds j - 1 and j
\* (the last line ends with the string).
LinefeedsOf(b) == { k \in 1..Len(b) : IsLit(b[k], "\n") }
LinefeedAt(b, j) ==
    IF j = 0 THEN 0
    ELSE IF j > Cardinality(LinefeedsOf(b)) THEN Len(b) + 1
    ELSE CHOOSE k \in LinefeedsOf(b) : Cardinality({ q \in LinefeedsOf(b) : q < k }) = j - 1
LineOf(b, j) == SubSeq(b, LinefeedAt(b, j - 1) + 1, LinefeedAt(b, j) - 1)
NumLines(b) == Cardinality(LinefeedsOf(b)) + 1

\* Every byte is a character (none is indeterminate, none a raw digest byte).
IsText(b) == \A k \in 1..Len(b) : b[k].t = "c" /\ b[k].x = ""

\* Every byte is a lowercase hex digit of a digest byte.
IsHexOfDigest(b) == \A k \in 1..Len(b) : b[k].t = "h" /\ b[k].x \in {"hi", "lo"}

\* The signature: the digest the last hash of the call returned.
SignatureOfCall == RefHash(mem.hs.fin[Len(mem.hs.fin)])

\* The value of the Authorization header for the signed-headers list sh
\* and the signature sig.
RefAuthorization(P, sh, sig) ==
    Str(RefAlgorithm(P) \o <<" ", "C","r","e","d","e","n","t","i","a","l","=">>
        \o P.pAccessKeyId \o <<"/">> \o RefScope(P)
        \o <<",", " ", "S","i","g","n","e","d","H","e","a","d","e","r","s","=">>)
    \o sh
    \o Str(<<",", " ", "S","i","g","n","a","t","u","r","e","=">>)
    \o HexOf(sig)

\* C1: on Success the authorization buffer holds exactly
\* "<ALGO> Credential=<AKID>/<YYYYMMDD>/<region>/<service>/aws4_request,
\* SignedHeaders=<list>, Signature=<hex>": ALGO the caller's algorithm or
\* AWS4-HMAC-SHA256, the list byte-identical to the signed-headers line of
\* the canonical request, hex the 2 * D lowercase hex digits of the signature.
C1_AuthorizationValue ==
    Returned(SigV4Success) =>
      /\ mem.authBufLenOut <= Len(mem.auth)
      /\ SubSeq(mem.auth, 1, mem.authBufLenOut)
           = RefAuthorization(params, LineOf(HashedRequest, NumLines(HashedRequest) - 1),
                              SignatureOfCall)
      /\ IsText(LineOf(HashedRequest, NumLines(HashedRequest) - 1))
      /\ IsHexOfDigest(SubSeq(mem.auth, mem.authBufLenOut - 2 * params.hashDigestLen + 1,
                              mem.authBufLenOut))

\* C2: the signature of a successful call is HMAC(kSign, stringToSign),
\* kSign = HMAC(HMAC(HMAC(HMAC("AWS4" || secret, YYYYMMDD), region),
\* service), "aws4_request"): no intermediate key is damaged in its slot
\* before it is used, and the string to sign is signed as it was written.
C2_SignatureIsHmacChain ==
    Returned(SigV4Success) =>
      Peek(mem, mem.cur, params.hashDigestLen)
        = RefHmac(RefSigningKey(params), RefStringToSign(params))

\* The fields of a byte string that the character c separates: field j lies
\* between the separators j - 1 and j.
SeparatorsOf(b, c) == { k \in 1..Len(b) : IsLit(b[k], c) }
SeparatorAt(b, c, j) ==
    IF j = 0 THEN 0
    ELSE IF j > Cardinality(SeparatorsOf(b, c)) THEN Len(b) + 1
    ELSE CHOOSE k \in SeparatorsOf(b, c) : Cardinality({ q \in SeparatorsOf(b, c) : q < k }) = j - 1
FieldOf(b, c, j) == SubSeq(b, SeparatorAt(b, c, j - 1) + 1, SeparatorAt(b, c, j) - 1)
NumFields(b, c) == Cardinality(SeparatorsOf(b, c)) + 1

\* Percent-encoding as RFC 3986 and the interface describe it.
RefUnreserved(c) ==
    \/ (Code(c) >= Code("0") /\ Code(c) <= Code("9"))
    \/ (Code(c) >= Code("A") /\ Code(c) <= Code("Z"))
    \/ (Code(c) >= Code("a") /\ Code(c) <= Code("z"))
    \/ c \in {"-", "_", ".", "~"}

RefUpperHex == <<"0","1","2","3","4","5","6","7","8","9","A","B","C","D","E","F">>

RefEncodeChar(c) ==
    IF RefUnreserved(c) \/ c = "/" THEN <<c>>
    ELSE <<"%", RefUpperHex[(Code(c) \div 16) + 1], RefUpperHex[(Code(c) % 16) + 1]>>

RECURSIVE RefEncodePath(_)
RefEncodePath(s) == IF s = <<>> THEN <<>> ELSE RefEncodeChar(Head(s)) \o RefEncodePath(Tail(s))

\* The canonical URI: "/" for no path, the path encoded once for the
\* service s3 and twice for any other.
RefURI(P) ==
    IF "pPath" \in P.nulls \/ Len(P.pPath) = 0 THEN <<"/">>
    ELSE IF P.pService = <<"s", "3">> THEN RefEncodePath(P.pPath)
    ELSE RefEncodePath(RefEncodePath(P.pPath))

\* The number of headers of the request, and of parameters of its query.
NumHeaders(P) ==
    Cardinality({ k \in 1..(Len(P.pHeaders) - 1) : P.pHeaders[k] = "\r" /\ P.pHeaders[k + 1] = "\n" })
NumParameters(P) ==
    Cardinality({ j \in 1..NumFields(Str(P.pQuery), "&") : FieldOf(Str(P.pQuery), "&", j) # <<>> })

\* cr is METHOD LF URI LF QUERY LF (key ':' value LF)* LF signed-headers LF
\* hex(H(payload)) for the request P with n headers.
IsCanonicalRequest(cr, P, n) ==
    /\ NumFields(cr, "\n") = n + 6
    /\ FieldOf(cr, "\n", 1) = Str(P.pHttpMethod)
    /\ FieldOf(cr, "\n", 2) = Str(RefURI(P))
    /\ IsText(FieldOf(cr, "\n", 3))
    /\ IF NumParameters(P) = 0 THEN FieldOf(cr, "\n", 3) = <<>>
       ELSE NumFields(FieldOf(cr, "\n", 3), "&") = NumParameters(P)
    /\ \A j \in 1..n :
         /\ IsText(FieldOf(cr, "\n", 3 + j))
         /\ NumFields(FieldOf(cr, "\n", 3 + j), ":") >= 2
         /\ FieldOf(FieldOf(cr, "\n", 3 + j), ":", 1) # <<>>
         /\ FieldOf(FieldOf(cr, "\n", n + 5), ";", j) = FieldOf(FieldOf(cr, "\n", 3 + j), ":", 1)
    /\ FieldOf(cr, "\n", n + 4) = <<>>
    /\ NumFields(FieldOf(cr, "\n", n + 5), ";") = n
    /\ FieldOf(cr, "\n", n + 6) = HexOf(RefHash(Str(P.pPayload)))
    /\ Len(FieldOf(cr, "\n", n + 6)) = 2 * P.hashDigestLen

\* C3: with no canonical flag set, the bytes hashed into the string to sign
\* are exactly METHOD LF URI LF QUERY LF (key ':' value LF for each header)
\* LF signed-headers LF hex(hash(payload)), in this order and nothing else;
\* URI is "/" for a null or empty path, QUERY is empty for an empty query,
\* the hash is 2 * D lowercase hex digits.
C3_CanonicalRequestHashed ==
    (params.flags = 0 /\ Len(mem.hs.fin) >= 2)
    => IsCanonicalRequest(HashedRequest, params, NumHeaders(params))

\* C4: after the string-to-sign phase succeeds the processing buffer holds,
\* from byte 0 to the cursor, ALGO LF ISO8601 LF
\* YYYYMMDD/region/service/aws4_request LF and the 2 * D hex digits of the
\* hash of the canonical request; the phase returns InsufficientMemory when
\* the length of that prefix plus 2 * D exceeds the length of the buffer.
C4_StringToSignPhase ==
    [][ pc = "stringToSign" =>
          /\ pc' = "signingKey" =>
               /\ mem'.cur = Len(RefStringToSign(params)')
               /\ Peek(mem', 0, mem'.cur) = RefStringToSign(params)'
          /\ ( /\ Len(RefAlgorithm(params)) + 1 + Len(params.pDateIso8601) + 1
                    + Len(RefScope(params)) + 1 + 2 * params.hashDigestLen > params.bufLen
               /\ ~HashCallFailed'
               /\ pc' = "done" )
             => mem'.st = SigV4InsufficientMemory
          /\ ( Len(RefAlgorithm(params)) + 1 + Len(params.pDateIso8601) + 1
                 + Len(RefScope(params)) + 1 + 2 * params.hashDigestLen > params.bufLen )
             => pc' # "signingKey" ]_vars

\* The length of what the call wrote in front of the signature: the end of
\* the first "Signature=" in the authorization buffer (0 when there is none).
SignatureLabel == Str(<<"S","i","g","n","a","t","u","r","e","=">>)
LabelEnds ==
    { n \in Len(SignatureLabel)..Len(mem.auth) :
        SubSeq(mem.auth, n - Len(SignatureLabel) + 1, n) = SignatureLabel }
WrittenPrefixLen ==
    IF LabelEnds = {} THEN 0 ELSE CHOOSE n \in LabelEnds : \A m \in LabelEnds : n <= m

\* C5: on every Success the authorization length returned is at most the
\* capacity passed in and is the prefix length plus 2 * D; the signature
\* span returned starts at the prefix length inside the value written and
\* is 2 * D hex characters long.
C5_LengthAndSignatureSpan ==
    Returned(SigV4Success) =>
      /\ mem.authBufLenOut <= params.authBufLen
      /\ WrittenPrefixLen > 0
      /\ mem.authBufLenOut = WrittenPrefixLen + 2 * params.hashDigestLen
      /\ mem.pSignature = WrittenPrefixLen
      /\ mem.signatureLen = 2 * params.hashDigestLen
      /\ \A k \in 1..(2 * params.hashDigestLen) : mem.auth[mem.pSignature + k].x \in {"hi", "lo"}

\* A successful call that fills the caller's buffer to its last byte.
C5_Witness ==
    /\ Returned(SigV4Success)
    /\ mem.authBufLenOut = params.authBufLen
    /\ mem.pSignature + mem.signatureLen = params.authBufLen

(***************************************************************************)
(* The limits on the number of headers and of query parameters.            *)
(***************************************************************************)

\* The number of header lines of the request: lines ended by LF when the
\* headers are canonical, by CRLF otherwise.
HeaderLinesOf(P) ==
    IF HasFlag(P.flags, SIGV4_HTTP_HEADERS_ARE_CANONICAL_FLAG)
    THEN Cardinality({ k \in 1..Len(P.pHeaders) : P.pHeaders[k] = "\n" })
    ELSE Cardinality({ k \in 1..(Len(P.pHeaders) - 1) :
                         /\ P.pHeaders[k] = "\r" /\ P.pHeaders[k + 1] = "\n"
                         /\ k > 1 /\ P.pHeaders[k - 1] # "\n" })

\* C12: the limits are inclusive.  A request with exactly
\* SIGV4_MAX_HTTP_HEADER_COUNT headers (CRLF-terminated, with or without the
\* final empty line, or LF-terminated with the canonical flag) and a query
\* with exactly SIGV4_MAX_QUERY_PAIR_COUNT parameters are accepted; one more
\* header gives MaxHeaderPairCountExceeded, one more parameter
\* MaxQueryPairCountExceeded.
C12_PairCountLimitsInclusive ==
    (pc = "done" /\ params \in LimitRequests) =>
        IF NumParameters(params) > SIGV4_MAX_QUERY_PAIR_COUNT
        THEN mem.st = SigV4MaxQueryPairCountExceeded
        ELSE IF HeaderLinesOf(params) > SIGV4_MAX_HTTP_HEADER_COUNT
        THEN mem.st = SigV4MaxHeaderPairCountExceeded
        ELSE mem.st = SigV4Success

(***************************************************************************)
(* A caller that signs a request and then signs it again in canonical      *)
(* form.  dHist keeps what the first call returned: the request, the       *)
(* Authorization value and the inputs whose digests the value holds.       *)
(***************************************************************************)

\* The characters of bytes that are text.
CharsOf(b) == [ k \in 1..Len(b) |-> b[k].ch ]

\* What a call has returned.
CallResult(P, M) ==
    [ req |-> P, st |-> M.st,
      auth |-> SubSeq(M.auth, 1, M.authBufLenOut),
      hashed |-> M.hs.log ]

\* The canonical header lines of the canonical request cr with n headers,
\* each with its linefeed.
CanonicalHeaderLines(cr, n) ==
    SubSeq(cr, SeparatorAt(cr, "\n", 3) + 1, SeparatorAt(cr, "\n", 3 + n))

\* The request P with its path, query and headers replaced by the canonical
\* URI, query and header lines in cr, and flagged as canonical with flags.
Precanonicalized(P, cr, n, flags) ==
    [ P EXCEPT !.pPath = CharsOf(FieldOf(cr, "\n", 2)),
               !.pQuery = CharsOf(FieldOf(cr, "\n", 3)),
               !.pHeaders = CharsOf(CanonicalHeaderLines(cr, n)),
               !.nulls = @ \ { "pPath" },
               !.flags = flags ]

PathQueryHeadersFlags ==
    SIGV4_HTTP_PATH_IS_CANONICAL_FLAG + SIGV4_HTTP_QUERY_IS_CANONICAL_FLAG
      + SIGV4_HTTP_HEADERS_ARE_CANONICAL_FLAG

\* The caller takes the canonical request of a successful call and signs
\* the request again in canonical form, in the same build.
SignCanonical ==
    /\ pc = "done"
    /\ mem.st = SigV4Success
    /\ params.flags = 0
    /\ dHist = <<>>
    /\ dHist' = << CallResult(params, mem) >>
    /\ params' = Precanonicalized(params, HashedRequest, mem.nHdr, PathQueryHeadersFlags)
    /\ mem' = [ InitMem(params') EXCEPT !.beyond = mem.beyond, !.asserts = mem.asserts ]
    /\ pc' = "verify"
    /\ UNCHANGED <<dFields, dReq, dRes>>

\* The caller signs the canonical form once more, now flagged with
\* SIGV4_HTTP_ALL_ARE_CANONICAL_FLAG alone.
SignAllCanonical ==
    /\ pc = "done"
    /\ mem.st = SigV4Success
    /\ params.flags = PathQueryHeadersFlags
    /\ Len(dHist) = 1
    /\ dHist' = Append(dHist, CallResult(params, mem))
    /\ params' = [ params EXCEPT !.flags = SIGV4_HTTP_ALL_ARE_CANONICAL_FLAG ]
    /\ mem' = [ InitMem(params') EXCEPT !.beyond = mem.beyond, !.asserts = mem.asserts ]
    /\ pc' = "verify"
    /\ UNCHANGED <<dFields, dReq, dRes>>

\* Requests with no flag that fit their buffers.
PlainRequests == { P \in HappyRequests : P.flags = 0 }

InitCanonical ==
    /\ pc = "verify"
    /\ params \in PlainRequests
    /\ mem = InitMem(params)
    /\ dFields = NoFields
    /\ dReq = NoDateReq
    /\ dRes = NoDateRes
    /\ dHist = <<>>

NextCanonical == Next \/ SignCanonical \/ SignAllCanonical

SpecCanonical == InitCanonical /\ [][NextCanonical]_vars

\* The second call has ended, by returning or otherwise.
SecondCallEnded == Len(dHist) = 1 /\ pc \in { "done", "aborted", "crashed" }

\* C13: canonicalization is idempotent.  When a request with no flags has
\* been signed successfully and is signed again with its path, query and
\* headers replaced by the canonical URI, query and header lines of the
\* first call and the three canonical flags set, the second call returns
\* Success with the same Authorization value (the same bytes, holding the
\* digests of the same inputs); requests with an empty query included.
C13_CanonicalizationIdempotent ==
    SecondCallEnded =>
      /\ pc = "done"
      /\ mem.st = SigV4Success
      /\ CallResult(params, mem).auth = dHist[1].auth
      /\ CallResult(params, mem).hashed = dHist[1].hashed

\* The call flagged with SIGV4_HTTP_ALL_ARE_CANONICAL_FLAG has ended.
ThirdCallEnded == Len(dHist) = 2 /\ pc \in { "done", "aborted", "crashed" }

\* C14: SIGV4_HTTP_ALL_ARE_CANONICAL_FLAG alone acts as the three flags
\* together.  A request in canonical form that signs successfully with the
\* three flags, signed again with only the one flag, is copied verbatim into
\* the canonical request (the same bytes are hashed) and gives the same
\* Authorization value.
C14_AllCanonicalFlag ==
    ThirdCallEnded =>
      /\ pc = "done"
      /\ mem.st = SigV4Success
      /\ CallResult(params, mem).auth = dHist[2].auth
      /\ CallResult(params, mem).hashed = dHist[2].hashed

(***************************************************************************)
(* The canonical headers.                                                  *)
(***************************************************************************)

\* Whitespace inside a header: space and tab.
IsBlank(c) == c \in { " ", "\t" }

\* s without its leading and trailing whitespace and with every run of
\* whitespace inside it replaced by one space: out is what has been kept of
\* the characters before index k, pending says that whitespace has been
\* seen since.
RECURSIVE RefTrimFrom(_, _, _, _)
RefTrimFrom(s, k, out, pending) ==
    IF k > Len(s) THEN out
    ELSE IF IsBlank(s[k]) THEN RefTrimFrom(s, k + 1, out, out # <<>>)
    ELSE RefTrimFrom(s, k + 1, out \o (IF pending THEN <<" ">> ELSE <<>>) \o <<s[k]>>, FALSE)

RefTrim(s) == RefTrimFrom(s, 1, <<>>, FALSE)

RefLower(s) ==
    [ k \in 1..Len(s) |->
        IF Code(s[k]) >= Code("A") /\ Code(s[k]) <= Code("Z") THEN Chr(Code(s[k]) + 32) ELSE s[k] ]

\* The key and the value of the one header of a request: the characters
\* before the first colon and those between it and CRLF.
OnlyHeaderKey(P) == CharsOf(FieldOf(Str(P.pHeaders), ":", 1))
OnlyHeaderValue(P) ==
    SubSeq(P.pHeaders, SeparatorAt(Str(P.pHeaders), ":", 1) + 1, Len(P.pHeaders) - 2)

\* C15: for headers that are not canonical, the header line emitted is the
\* key, trimmed, its inner whitespace runs replaced by one space, and
\* lowercased, then ':', then the value trimmed the same way with its letter
\* case kept: whitespace is space or tab in any mix, and what is emitted
\* for a run is the one byte 0x20.
C15_HeaderWhitespace ==
    (Returned(SigV4Success) /\ params \in TrimRequests) =>
        FieldOf(HashedRequest, "\n", 4)
          = Str(RefLower(RefTrim(OnlyHeaderKey(params))) \o <<":">> \o RefTrim(OnlyHeaderValue(params)))

\* The character string a comes before b in byte order: at the first index
\* where they differ a has the smaller byte, or a is b cut short.
RefBefore(a, b) ==
    \/ \E i \in 1..Smaller(Len(a), Len(b)) :
         /\ \A j \in 1..(i - 1) : a[j] = b[j]
         /\ Code(a[i]) < Code(b[i])
    \/ Len(a) < Len(b) /\ a = SubSeq(b, 1, Len(a))

\* The key of header line j of the canonical request cr, and entry j of its
\* signed-headers list when it has n header lines.
CanonicalKey(cr, j) == CharsOf(FieldOf(FieldOf(cr, "\n", 3 + j), ":", 1))
SignedKey(cr, n, j) == CharsOf(FieldOf(FieldOf(cr, "\n", 5 + n), ";", j))

\* C16: for headers that are not canonical, the header lines of the canonical
\* request come in ascending byte order of their keys, a key that is the
\* beginning of another one first, whatever the order of the input, and the
\* signed-headers list names the same keys in the same order.
C16_HeadersSorted ==
    (Returned(SigV4Success) /\ params \in HappyRequests /\ params.flags = 0) =>
        /\ \A j \in 1..(mem.nHdr - 1) :
             RefBefore(CanonicalKey(HashedRequest, j), CanonicalKey(HashedRequest, j + 1))
        /\ NumFields(FieldOf(HashedRequest, "\n", 5 + mem.nHdr), ";") = mem.nHdr
        /\ \A j \in 1..mem.nHdr :
             SignedKey(HashedRequest, mem.nHdr, j) = CanonicalKey(HashedRequest, j)

(***************************************************************************)
(* The canonical query.                                                    *)
(***************************************************************************)

\* The parameters of the query q as its grammar gives them: for each
\* non-empty segment between '&'s, the characters before its first '=' and
\* those after it.
RefSegments(q) == { j \in 1..NumFields(Str(q), "&") : FieldOf(Str(q), "&", j) # <<>> }
RefPairOf(seg) ==
    [ key |-> CharsOf(FieldOf(seg, "=", 1)),
      value |-> CharsOf(SubSeq(seg, SeparatorAt(seg, "=", 1) + 1, Len(seg))) ]
RefPairs(q) == { RefPairOf(FieldOf(Str(q), "&", j)) : j \in RefSegments(q) }

\* The parameters the call has parsed.
ParsedPairs == { mem.qrys[k] : k \in 1..mem.nQry }

\* C17: the parameters parsed from a query are, for each of its non-empty
\* '&'-separated segments, the characters before the segment's first '=' and
\* those after it: a segment without '=' or with nothing after it has an
\* empty value wherever it stands, and no field or value contains '&'.
C17_QueryParsing ==
    (pc = "done" /\ params \in ParseRequests) =>
        /\ mem.nQry = Cardinality(RefSegments(params.pQuery))
        /\ ParsedPairs = RefPairs(params.pQuery)
        /\ \A pair \in ParsedPairs : \A k \in 1..Len(pair.value) : pair.value[k] # "&"

\* A character of a field or a value of the query, percent-encoded: every
\* character outside the unreserved set as '%' and two hex digits, and '='
\* inside a value as the encoding of its encoding.
RefEncodeQueryChar(c, inValue) ==
    IF RefUnreserved(c) THEN <<c>>
    ELSE IF c = "=" /\ inValue THEN <<"%", "2", "5", "3", "D">>
    ELSE <<"%", RefUpperHex[(Code(c) \div 16) + 1], RefUpperHex[(Code(c) % 16) + 1]>>

RECURSIVE RefEncodeQuery(_, _)
RefEncodeQuery(s, inValue) ==
    IF s = <<>> THEN <<>>
    ELSE RefEncodeQueryChar(Head(s), inValue) \o RefEncodeQuery(Tail(s), inValue)

\* The first n of the pairs, each as field '=' value, joined by '&'.
RECURSIVE RefQueryLine(_, _)
RefQueryLine(pairs, n) ==
    IF n = 0 THEN <<>>
    ELSE (IF n = 1 THEN <<>> ELSE RefQueryLine(pairs, n - 1) \o <<"&">>)
         \o RefEncodeQuery(pairs[n].key, FALSE) \o <<"=">> \o RefEncodeQuery(pairs[n].value, TRUE)

\* C18: the query line of the canonical request is, for the sorted pairs in
\* turn, the encoded field, '=', the encoded value ('/' as %2F, '=' inside a
\* value as %253D), the pairs joined by '&' and the line ended by one
\* linefeed: a pair with an empty value is written as the field and '='.
C18_QueryEmission ==
    (Returned(SigV4Success) /\ params \in HappyRequests \cup ParseRequests
       /\ params.flags = 0 /\ mem.nQry > 0) =>
        /\ FieldOf(HashedRequest, "\n", 3) = Str(RefQueryLine(mem.qrys, mem.nQry))
        /\ NumFields(HashedRequest, "\n") = mem.nHdr + 6

\* Every segment of the query q is a non-empty field, '=' and a non-empty
\* value.
QueryIsPlain(q) ==
    /\ q # <<>>
    /\ \A j \in 1..NumFields(Str(q), "&") :
         /\ RefPairOf(FieldOf(Str(q), "&", j)).key # <<>>
         /\ RefPairOf(FieldOf(Str(q), "&", j)).value # <<>>

\* The pair p is the pair q or comes before it: by field, and by value when
\* the fields are equal.
RefPairOrder(p, q) ==
    \/ RefBefore(p.key, q.key)
    \/ p.key = q.key /\ (RefBefore(p.value, q.value) \/ p.value = q.value)

\* The pairs of the query q in the order p of its segments.
PairsInOrder(q, p) == [ j \in 1..Len(p) |-> RefPairOf(FieldOf(Str(q), "&", p[j])) ]

\* The orders of the n segments of the query q in which its pairs ascend.
AscendingOrders(q, n) ==
    { p \in Perms(n) : \A j \in 1..(n - 1) : RefPairOrder(PairsInOrder(q, p)[j], PairsInOrder(q, p)[j + 1]) }

\* C19: whatever the order of the parameters in the query, the canonical
\* query lists them in ascending byte order of the field and, for equal
\* fields, of the value, a string that begins another one first; and the
\* comparison of two parameters that differ is never zero and agrees with
\* that order.
C19_QuerySorted ==
    (Returned(SigV4Success) /\ params \in SortRequests \cup HappyRequests
       /\ ~HasFlag(params.flags, SIGV4_HTTP_QUERY_IS_CANONICAL_FLAG)
       /\ QueryIsPlain(params.pQuery)) =>
        LET n == NumFields(Str(params.pQuery), "&")
        IN  /\ \E p \in AscendingOrders(params.pQuery, n) :
                 FieldOf(HashedRequest, "\n", 3) = Str(RefQueryLine(PairsInOrder(params.pQuery, p), n))
            /\ \A p, q \in RefPairs(params.pQuery) :
                 p # q => /\ cmpQueryFieldValue(p, q) # 0
                          /\ cmpQueryFieldValue(p, q) < 0 <=> RefPairOrder(p, q)

(***************************************************************************)
(* The canonical URI for the service s3 and for the other services: a      *)
(* caller signs a request for a service and then the same request for s3.  *)
(***************************************************************************)

ServiceNames == { <<"s">>, <<"s","4">>, <<"S","3">>, <<"s","3","x">>, <<"x","3">> }

ServicePaths ==
    { <<"/">>, <<>>, <<"/","a","-","_",".","~","Z","9">>, <<"/","a","/","b">>,
      <<"/","h","i"," ","|"," ","w","o","r","l","d">>, <<"/","a","%","b">>, <<"a","=","b">> }

ServiceRequests ==
    { Wide([ BaseParams EXCEPT !.pService = sv, !.pPath = pa ]) : sv \in ServiceNames, pa \in ServicePaths }
    \cup { Wide(WithNull([ BaseParams EXCEPT !.pService = sv ], "pPath")) : sv \in ServiceNames }

\* What the caller keeps of the first call: its request, its status and the
\* URI line of its canonical request.
UriResult(P, M) == [ req |-> P, st |-> M.st, uri |-> FieldOf(M.hs.fin[2], "\n", 2) ]

SignForS3 ==
    /\ pc = "done"
    /\ mem.st = SigV4Success
    /\ params.pService # S3_SERVICE_NAME
    /\ dHist = <<>>
    /\ dHist' = << UriResult(params, mem) >>
    /\ params' = [ params EXCEPT !.pService = S3_SERVICE_NAME ]
    /\ mem' = [ InitMem(params') EXCEPT !.beyond = mem.beyond, !.asserts = mem.asserts ]
    /\ pc' = "verify"
    /\ UNCHANGED <<dFields, dReq, dRes>>

InitService ==
    /\ pc = "verify"
    /\ params \in ServiceRequests
    /\ mem = InitMem(params)
    /\ dFields = NoFields
    /\ dReq = NoDateReq
    /\ dRes = NoDateRes
    /\ dHist = <<>>

NextService == Next \/ SignForS3

SpecService == InitService /\ [][NextService]_vars

\* The call for s3 has ended, by returning or otherwise.
S3CallEnded == Len(dHist) = 1 /\ pc \in { "done", "aborted", "crashed" }

\* The path that is encoded: '/' when the request has none.
PathOf(P) == IF "pPath" \in P.nulls \/ Len(P.pPath) = 0 THEN <<"/">> ELSE P.pPath

\* The URI lines of the two calls are the path encoded twice and once.
EncodedTwiceAndOnce ==
    /\ Returned(SigV4Success)
    /\ dHist[1].uri = Str(RefEncodePath(RefEncodePath(PathOf(params))))
    /\ FieldOf(HashedRequest, "\n", 2) = Str(RefEncodePath(PathOf(params)))

\* C20 as stated: the path is encoded once for the service s3 and twice for
\* every other service name, and the two canonical URIs differ exactly when
\* the path has a byte outside the unreserved set A-Z a-z 0-9 - _ . ~
C20_Original ==
    S3CallEnded =>
      /\ EncodedTwiceAndOnce
      /\ dHist[1].uri # FieldOf(HashedRequest, "\n", 2)
           <=> \E k \in 1..Len(PathOf(params)) : ~RefUnreserved(PathOf(params)[k])

\* C20: the path is encoded once for the service s3 and twice for every
\* other service name, names of two bytes included, '/' being copied as it
\* is; the two canonical URIs differ exactly when the path has a byte that is
\* neither in the unreserved set nor '/'.
C20_ServiceEncoding ==
    S3CallEnded =>
      /\ EncodedTwiceAndOnce
      /\ dHist[1].uri # FieldOf(HashedRequest, "\n", 2)
           <=> \E k \in 1..Len(PathOf(params)) :
                 ~RefUnreserved(PathOf(params)[k]) /\ PathOf(params)[k] # "/"

\* '/hi | world' signed for the service s4 and then for s3.
C20_Witness ==
    /\ S3CallEnded
    /\ dHist[1].req.pService = <<"s","4">>
    /\ dHist[1].uri = Str(<<"/","h","i","%","2","5","2","0","%","2","5","7","C","%","2","5","2","0",
                            "w","o","r","l","d">>)
    /\ FieldOf(HashedRequest, "\n", 2)
         = Str(<<"/","h","i","%","2","0","%","7","C","%","2","0","w","o","r","l","d">>)

(***************************************************************************)
(* encodeURI on its own: a string, a destination of a given capacity and   *)
(* the two options.                                                        *)
(***************************************************************************)

MaxCapacity == 8

EncodeInputs ==
    { <<>>, <<"a">>, <<"a","Z","9">>, <<"-","_",".","~">>, <<"/">>, <<"a","/","b">>, <<"=">>,
      <<"a","=">>, <<"a","=","b">>, <<" ">>, <<"a"," ">>, <<"a","NUL","b">>, <<"%","a">>,
      <<"a","b","c","d","e","f">>, <<"a","b","c","=">> }

\* The arguments of a call of encodeURI, in the shape of a request: the
\* destination is the processing buffer, *canonicalURILen is bufLen.
EncodeArgs ==
    { [ BaseParams EXCEPT !.pPath = u, !.bufLen = n, !.flags = f ] :
        u \in EncodeInputs, n \in 0..MaxCapacity, f \in 0..3 }

EncodeSlashOf(P) == HasFlag(P.flags, 1)
DoubleEncodeEqualsOf(P) == HasFlag(P.flags, 2)

\* The call: the status and the length reported are kept in st and encodedLen.
callEncodeURI(P, M) ==
    { Bind(encodeURI(P, M, Str(P.pPath), 0, P.bufLen, EncodeSlashOf(P), DoubleEncodeEqualsOf(P)),
           LAMBDA e : [ e.M EXCEPT !.st = e.st, !.encodedLen = e.len ]) }

EncodeCall ==
    /\ pc = "encode"
    /\ \E o \in Run(callEncodeURI, "done") :
         pc' = o[1] /\ mem' = o[2]
    /\ UNCHANGED <<params, dFields, dReq, dRes, dHist>>

InitEncode ==
    /\ pc = "encode"
    /\ params \in EncodeArgs
    /\ mem = InitMem(params)
    /\ dFields = NoFields
    /\ dReq = NoDateReq
    /\ dRes = NoDateRes
    /\ dHist = <<>>

SpecEncode == InitEncode /\ [][EncodeCall]_vars

\* The encoding of a character as the interface describes it.
RefEncodeURIChar(c, encodeSlash, doubleEncodeEquals) ==
    IF RefUnreserved(c) \/ (c = "/" /\ ~encodeSlash) THEN <<c>>
    ELSE IF c = "=" /\ doubleEncodeEquals THEN <<"%", "2", "5", "3", "D">>
    ELSE <<"%", RefUpperHex[(Code(c) \div 16) + 1], RefUpperHex[(Code(c) % 16) + 1]>>

RECURSIVE RefEncodeURI(_, _, _)
RefEncodeURI(s, encodeSlash, doubleEncodeEquals) ==
    IF s = <<>> THEN <<>>
    ELSE RefEncodeURIChar(Head(s), encodeSlash, doubleEncodeEquals)
         \o RefEncodeURI(Tail(s), encodeSlash, doubleEncodeEquals)

RefEncoded(P) == RefEncodeURI(P.pPath, EncodeSlashOf(P), DoubleEncodeEqualsOf(P))

\* C21: for every string and every capacity of the destination, encodeURI
\* returns: with Success exactly when the capacity is at least the length
\* of the encoded string, the length reported and the bytes written then
\* being those of the encoded string, and with InsufficientMemory otherwise;
\* no assertion of it fails, also when the last encoded character fills the
\* destination exactly.
C21_EncodeURI ==
    pc # "encode" =>
      /\ pc = "done"
      /\ mem.st = IF params.bufLen >= Len(RefEncoded(params)) THEN SigV4Success
                  ELSE SigV4InsufficientMemory
      /\ mem.st = SigV4Success =>
           /\ mem.encodedLen = Len(RefEncoded(params))
           /\ SubSeq(mem.buf, 1, mem.encodedLen) = Str(RefEncoded(params))

(***************************************************************************)
(* The cursor of the processing buffer.                                    *)
(***************************************************************************)

\* One of the steps that build the canonical request has just ended: with
\* Success, the next step being due, or with a status that only these steps
\* return.
CanonicalStepEnded ==
    \/ pc \in { "path", "query", "headers", "authPrefix" }
    \/ pc = "done" /\ mem.st \in { SigV4MaxQueryPairCountExceeded, SigV4MaxHeaderPairCountExceeded }

\* C22: after each of the method, URI, query and headers steps of the
\* canonical request, succeeded or failed, the cursor lies within the
\* processing buffer and bufRemaining is the length of the buffer minus the
\* cursor: bufRemaining never wraps below zero, also when a line terminator
\* is appended with no space left.
C22_CursorInBuffer ==
    CanonicalStepEnded =>
      /\ mem.cur >= 0 /\ mem.cur <= params.bufLen
      /\ mem.rem = params.bufLen - mem.cur
      /\ "wrap" \notin mem.ev

(***************************************************************************)
(* The HMAC engine on its own: a caller appends the pieces of a key, gives *)
(* the data and takes the MAC, twice with the same context.                *)
(***************************************************************************)

HmacKeys ==
    { << <<"A","W","S","4">>, <<"x","y">> >>, << <<"a","b">> >>, << <<"a","b","c","d">> >>,
      << <<"a","b","c","d","e">> >>, << <<"a","b">>, <<"c","d">> >>,
      << <<"a","b">>, <<"c","d","e">>, <<"f">> >>, << <<"a">>, <<"b">>, <<"c">> >>,
      << <<"A","W","S","4">>, <<"0","1","2","3","4","5","6","7","8","9">> >> }

HmacSizes == { <<4, 2>>, <<4, 4>>, <<8, 2>> }

\* The hash of the caller and the arguments of one HMAC.
HmacArgs ==
    { [ BaseParams EXCEPT !.hashBlockLen = z[1], !.hashDigestLen = z[2] ]
        @@ [ pieces |-> ks, data |-> dt ] :
        z \in HmacSizes, ks \in HmacKeys, dt \in { <<>>, <<"d">> } }

\* hmacKey for each piece of the key in turn.
RECURSIVE hmacKeyAll(_, _, _, _)
hmacKeyAll(P, h, pieces, i) ==
    IF i > Len(pieces) THEN h
    ELSE Bind(hmacKey(P, h, Str(pieces[i])), LAMBDA k :
              IF k.rc # 0 THEN k ELSE hmacKeyAll(P, k, pieces, i + 1))

RECURSIVE Concat(_)
Concat(pieces) == IF pieces = <<>> THEN <<>> ELSE Head(pieces) \o Concat(Tail(pieces))

\* hmacKey*, hmacData, hmacFinal on the context in M.
hmacSequence(P, M) ==
    hmacFinal(P, hmacData(P, hmacKeyAll(P, HmacContext(M), P.pieces, 1), Str(P.data)))

\* The caller computes an HMAC; after the first it goes on to another key
\* and other data with the same context.
HmacCall ==
    /\ pc = "hmac"
    /\ mem' = SetHmacContext(mem, hmacSequence(params, mem))
    /\ dHist' = Append(dHist, [ key |-> Str(Concat(params.pieces)), data |-> Str(params.data),
                                rc |-> hmacSequence(params, mem).rc,
                                mac |-> hmacSequence(params, mem).out ])
    /\ IF dHist = <<>>
       THEN /\ pc' = "hmac"
            /\ \E ks \in HmacKeys : params' = [ params EXCEPT !.pieces = ks, !.data = <<"e">> ]
       ELSE /\ pc' = "done"
            /\ params' = params
    /\ UNCHANGED <<dFields, dReq, dRes>>

InitHmac ==
    /\ pc = "hmac"
    /\ params \in HmacArgs
    /\ mem = InitMem(params)
    /\ dFields = NoFields
    /\ dReq = NoDateReq
    /\ dRes = NoDateRes
    /\ dHist = <<>>

SpecHmac == InitHmac /\ [][HmacCall]_vars

\* C23: the sequence hmacKey*, hmacData, hmacFinal yields
\* H((K0 xor opad) || H((K0 xor ipad) || data)), K0 being the appended key
\* pieces, zero-padded to a block when they are at most a block long and
\* hashed and zero-padded when they are longer, also when the block length is
\* crossed in the middle of the appends; afterwards the key length of the
\* context is 0, and the same context computes the next HMAC as well.
C23_HmacRefinement ==
    /\ dHist # <<>> => mem.keyLen = 0
    /\ \A n \in 1..Len(dHist) :
         /\ dHist[n].rc = 0
         /\ dHist[n].mac = RefHmac(dHist[n].key, dHist[n].data)

\* 'AWS4' and a secret that crosses the block length, after another HMAC
\* with the same context.
C23_Witness ==
    /\ Len(dHist) = 2
    /\ dHist[1].key = Str(<<"a","b","c","d","e">>)
    /\ dHist[2].key = Str(<<"A","W","S","4","x","y">>)
    /\ params.hashBlockLen = 4
    /\ dHist[2].mac = RefHmac(dHist[2].key, dHist[2].data)
    /\ dHist[2].mac # dHist[1].mac

(***************************************************************************)
(* The calls made on the caller's hash context.                            *)
(***************************************************************************)

\* The calls of the hash interface made so far, each <<kind, value returned>>.
HashCalls == mem.hs.calls

\* C24: over a signing call the calls on the hash context have the shape
\* (init, update*, final)*: an update or a final follows an init or an
\* update of its chain, an init is the first call or follows a final, and
\* no call is made after one that returned non-zero.
C24_HashCallShape ==
    (pc \notin { "encode", "hmac" }) =>
      \A i \in 1..Len(HashCalls) :
        /\ HashCalls[i][1] \in { "update", "final" } =>
             i > 1 /\ HashCalls[i - 1][1] \in { "init", "update" }
        /\ HashCalls[i][1] = "init" => i = 1 \/ HashCalls[i - 1][1] = "final"
        /\ i < Len(HashCalls) => HashCalls[i][2] = 0

\* A call in which a hash call failed after complete chains and the
\* hash-down of a key longer than a block.
C24_Witness ==
    /\ Returned(SigV4HashError)
    /\ Len(HashCalls) > 8
    /\ HashCalls[Len(HashCalls)][2] # 0
    /\ HashCalls[Len(HashCalls)][1] = "init"
    /\ Len(params.pSecretAccessKey) + 4 > params.hashBlockLen

(***************************************************************************)
(* Malformed headers.                                                      *)
(***************************************************************************)

\* The call has ended, by returning or otherwise.
CallEnded == pc \in { "done", "aborted", "crashed" }

\* C25: when the headers end in a key with no ':' or in a value with no
\* line end (CRLF, or LF for canonical headers), the call returns
\* InvalidParameter: it neither returns Success with the unterminated header
\* left out nor reaches a failed assertion.
C25_MalformedHeadersRejected ==
    (CallEnded /\ params \in MalformedRequests) => Returned(SigV4InvalidParameter)

(***************************************************************************)
(* quickSort (sigv4_quicksort.c).  A record is a number; the array is a    *)
(* sequence of records, index i of the code being element i + 1.  The      *)
(* memory of a sort is the array, the explicit stack with its index top,   *)
(* the events (a record read or swapped outside the array, a stack entry   *)
(* written or read outside the stack), and rounds, one entry for each      *)
(* iteration of the loop of quickSortHelper: the range it popped, the      *)
(* partition index and the ranges it pushed, in order.                     *)
(***************************************************************************)

SortMaxItems == 6

RECURSIVE Log2(_)
Log2(n) == IF n < 2 THEN 0 ELSE 1 + Log2(n \div 2)

SIGV4_WORST_CASE_SORT_STACK_SIZE == 2 * Log2(SortMaxItems) + 2

Comparators == { "ascending", "descending", "less", "greater", "equal" }

\* Those that are a strict total order on distinct records.
TotalOrders == { "ascending", "descending" }

comparator(name, first, second) ==
    CASE name = "ascending"  -> Sign(first - second)
      [] name = "descending" -> Sign(second - first)
      [] name = "less"       -> -1
      [] name = "greater"    -> 1
      [] OTHER               -> 0

\* swap: the records at the indices a and b change places; outside the
\* array nothing is modelled but the event.
swap(A, a, b) ==
    IF a < 0 \/ b < 0 \/ a >= Len(A.arr) \/ b >= Len(A.arr)
    THEN [ A EXCEPT !.ev = @ \cup {"oob_swap"} ]
    ELSE [ A EXCEPT !.arr = [ k \in 1..Len(@) |->
                                IF k = a + 1 THEN @[b + 1] ELSE IF k = b + 1 THEN @[a + 1] ELSE @[k] ] ]

\* Whether the comparator puts the record at index j before the pivot at
\* index high (FALSE, with an event, when an index is outside the array).
beforePivot(A, name, j, high) ==
    /\ j >= 0 /\ j < Len(A.arr) /\ high >= 0 /\ high < Len(A.arr)
    /\ comparator(name, A.arr[j + 1], A.arr[high + 1]) < 0

readRecords(A, j, high) ==
    IF j >= 0 /\ j < Len(A.arr) /\ high >= 0 /\ high < Len(A.arr) THEN A
    ELSE [ A EXCEPT !.ev = @ \cup {"oob_read"} ]

\* The loop of partition; i is a size_t.
RECURSIVE partitionLoop(_, _, _, _, _)
partitionLoop(A, name, i, j, high) ==
    IF j >= high
    THEN [ A |-> swap(A, (i + 1) % SizeMod, high), index |-> (i + 1) % SizeMod ]
    ELSE Bind(readRecords(A, j, high), LAMBDA A1 :
         IF beforePivot(A1, name, j, high)
         THEN Bind(swap(A1, (i + 1) % SizeMod, j), LAMBDA A2 :
                   partitionLoop(A2, name, (i + 1) % SizeMod, j + 1, high))
         ELSE partitionLoop(A1, name, i, j + 1, high))

\* A variant that moves the records the comparator puts after the pivot.
partitionAfterPivot(A, name, low, high) ==
    partitionLoop(A, IF name = "ascending" THEN "descending" ELSE "ascending",
                  (low - 1) % SizeMod, low, high)

partition(A, name, low, high) == partitionLoop(A, name, (low - 1) % SizeMod, low, high)

PUSH_STACK(A, valueToPush) ==
    [ A EXCEPT !.stack = [ k \in 1..Len(@) |-> IF k = A.top + 1 THEN valueToPush ELSE @[k] ],
               !.top = @ + 1,
               !.ev = IF A.top >= SIGV4_WORST_CASE_SORT_STACK_SIZE THEN @ \cup {"stack_oob"} ELSE @ ]

\* POP_STACK: the memory, and the value popped.
POP_STACK(A) ==
    [ A |-> [ A EXCEPT !.top = @ - 1,
                       !.ev = IF A.top < 1 \/ A.top > SIGV4_WORST_CASE_SORT_STACK_SIZE
                              THEN @ \cup {"stack_oob"} ELSE @ ],
      value |-> IF A.top >= 1 /\ A.top <= Len(A.stack) THEN A.stack[A.top] ELSE 0 ]

PushRange(A, lo, hi) == Bind(PUSH_STACK(A, lo), LAMBDA A1 : PUSH_STACK(A1, hi))

\* A variant that pushes the left subrange first, whatever its length.
pushSubrangesLeftFirst(A, lo, hi, p) ==
    LET len1 == IF p # 0 /\ p - 1 > lo THEN p - 1 - lo ELSE 0
        len2 == IF p + 1 < hi THEN hi - p - 1 ELSE 0
    IN  [ A |-> Bind(IF len1 > 0 THEN PushRange(A, lo, p - 1) ELSE A, LAMBDA A1 :
                     IF len2 > 0 THEN PushRange(A1, p + 1, hi) ELSE A1),
          pushed |-> (IF len1 > 0 THEN <<<<lo, p - 1>>>> ELSE <<>>)
                     \o (IF len2 > 0 THEN <<<<p + 1, hi>>>> ELSE <<>>) ]

\* What an iteration pushes after the partition at index p of lo..hi.
pushSubranges(A, lo, hi, p) ==
    LET len1 == IF p # 0 /\ p - 1 > lo THEN p - 1 - lo ELSE 0
        len2 == IF p + 1 < hi THEN hi - p - 1 ELSE 0
    IN  IF len1 > len2
        THEN [ A |-> Bind(PushRange(A, lo, p - 1), LAMBDA A1 :
                          IF len2 > 0 THEN PushRange(A1, p + 1, hi) ELSE A1),
               pushed |-> <<<<lo, p - 1>>>> \o (IF len2 > 0 THEN <<<<p + 1, hi>>>> ELSE <<>>) ]
        ELSE [ A |-> Bind(IF len2 > 0 THEN PushRange(A, p + 1, hi) ELSE A, LAMBDA A1 :
                          IF len1 > 0 THEN PushRange(A1, lo, p - 1) ELSE A1),
               pushed |-> (IF len2 > 0 THEN <<<<p + 1, hi>>>> ELSE <<>>)
                          \o (IF len1 > 0 THEN <<<<lo, p - 1>>>> ELSE <<>>) ]

\* One iteration of the loop of quickSortHelper.
quickSortRound(A, name) ==
    Bind(POP_STACK(A), LAMBDA h :
    Bind(POP_STACK(h.A), LAMBDA l :
    Bind(partition(l.A, name, l.value, h.value), LAMBDA part :
    Bind(pushSubranges(part.A, l.value, h.value, part.index), LAMBDA psh :
         [ psh.A EXCEPT !.rounds = Append(@, [ lo |-> l.value, hi |-> h.value, index |-> part.index,
                                               pushed |-> psh.pushed, top |-> psh.A.top ]) ]))))

\* The arrays sorted: the records 1..n in every order.
SortArgs ==
    { [ arr |-> a, isNull |-> FALSE, cmp |-> c ] :
        a \in UNION { Perms(n) : n \in 0..SortMaxItems }, c \in Comparators }
    \cup { [ arr |-> <<2, 1>>, isNull |-> TRUE, cmp |-> c ] : c \in Comparators }

InitSortMem(P) ==
    [ arr |-> P.arr, stack |-> [ k \in 1..SIGV4_WORST_CASE_SORT_STACK_SIZE |-> 0 ], top |-> 0,
      ev |-> {}, rounds |-> <<>> ]

\* quickSort up to the loop of quickSortHelper.
SortCall ==
    /\ pc = "sort"
    /\ IF Len(params.arr) # 0 /\ ~params.isNull
       THEN /\ mem' = PushRange(mem, 0, Len(params.arr) - 1)
            /\ pc' = "sorting"
       ELSE /\ mem' = mem
            /\ pc' = "done"
    /\ UNCHANGED <<params, dFields, dReq, dRes, dHist>>

SortRound ==
    /\ pc = "sorting"
    /\ mem' = quickSortRound(mem, params.cmp)
    /\ pc' = IF mem'.top > 0 THEN "sorting" ELSE "done"
    /\ UNCHANGED <<params, dFields, dReq, dRes, dHist>>

InitSort ==
    /\ pc = "sort"
    /\ params \in SortArgs
    /\ mem = InitSortMem(params)
    /\ dFields = NoFields
    /\ dReq = NoDateReq
    /\ dRes = NoDateRes
    /\ dHist = <<>>

NextSort == SortCall \/ SortRound

SpecSort == InitSort /\ [][NextSort]_vars

\* The scheduling of a sequential program: it takes its next step.
SpecSortFair == SpecSort /\ WF_vars(NextSort)

IsPermutationOf(a, b) ==
    /\ Len(a) = Len(b)
    /\ \A v \in { b[k] : k \in 1..Len(b) } : Cardinality({ k \in 1..Len(a) : a[k] = v }) = Cardinality({ k \in 1..Len(b) : b[k] = v })

AscendingBy(name, a) == \A k \in 1..(Len(a) - 1) : comparator(name, a[k], a[k + 1]) < 0

SortIsRight ==
    (params.cmp \in TotalOrders) =>
      /\ mem.ev \cap { "oob_read", "oob_swap" } = {}
      /\ IsPermutationOf(mem.arr, params.arr)
      /\ (params.isNull \/ Len(params.arr) = 0) => mem.arr = params.arr /\ mem.rounds = <<>>
      /\ (pc = "done" /\ ~params.isNull) => AscendingBy(params.cmp, mem.arr)

\* C26: under a comparator that is a strict total order quickSort ends, and
\* when it has ended the array is a permutation of its input in ascending
\* comparator order; a null array or one of no records is left as it was;
\* no record outside the array is read or swapped.
C26_QuickSort ==
    /\ [] SortIsRight
    /\ (params.cmp \in TotalOrders) => <>(pc = "done")

C26_Witness ==
    /\ pc = "done"
    /\ params.cmp = "descending"
    /\ params.arr = <<3, 1, 6, 5, 2, 4>>
    /\ mem.arr = <<6, 5, 4, 3, 2, 1>>
    /\ Len(mem.rounds) >= 3

RecordsIn(range) == range[2] - range[1] + 1

\* C27: in every iteration of the loop, under every comparator, a range
\* that is pushed holds two records or more, of two ranges pushed the first
\* holds as many records as the second or more and the second is the range
\* the next iteration pops, and the stack index never leaves
\* 0..SIGV4_WORST_CASE_SORT_STACK_SIZE.
C27_StackDiscipline ==
    /\ "stack_oob" \notin mem.ev
    /\ mem.top \in 0..SIGV4_WORST_CASE_SORT_STACK_SIZE
    /\ \A k \in 1..Len(mem.rounds) :
         /\ mem.rounds[k].top \in 0..SIGV4_WORST_CASE_SORT_STACK_SIZE
         /\ \A q \in 1..Len(mem.rounds[k].pushed) : RecordsIn(mem.rounds[k].pushed[q]) >= 2
         /\ Len(mem.rounds[k].pushed) = 2 =>
              /\ RecordsIn(mem.rounds[k].pushed[1]) >= RecordsIn(mem.rounds[k].pushed[2])
              /\ k < Len(mem.rounds) =>
                   <<mem.rounds[k + 1].lo, mem.rounds[k + 1].hi>> = mem.rounds[k].pushed[2]

\* Both subranges pushed, the left one the larger, and the right one sorted next.
C27_Witness ==
    /\ pc = "done"
    /\ params.cmp = "ascending"
    /\ Len(mem.rounds) >= 2
    /\ mem.rounds[1].pushed = << <<0, 2>>, <<4, 5>> >>
    /\ mem.rounds[2].lo = 4
    /\ mem.rounds[1].top = 4

(***************************************************************************)
(* Writes of a signing call and the ends of its buffers.                   *)
(***************************************************************************)

\* C28: no step of a signing call has written a byte of the processing
\* buffer at an offset of params.bufLen or more, whatever the request and
\* however the call ends.
C28_WritesInsideProcessingBuffer ==
    (pc \notin { "encode", "hmac", "sort", "sorting" }) => "oob_write" \notin mem.ev

\* The request of BaseParams with every capacity of the authorization buffer.
AuthSizeRequests == { [ BaseParams EXCEPT !.authBufLen = n ] : n \in 0..BaseAuthBufLen }

\* C29: a call whose authorization buffer is smaller than the prefix and
\* the 2 * D hex digits of the signature returns InsufficientMemory and has
\* written no byte of that buffer at an offset of its capacity or more.
C29_AuthBufferTooSmall ==
    (/\ CallEnded
     /\ params \in AuthSizeRequests
     /\ params.authBufLen < authPrefixLen(params, mem) + 2 * params.hashDigestLen) =>
      /\ Returned(SigV4InsufficientMemory)
      /\ "auth_oob" \notin mem.ev

\* C30: the parsing has stored no query pair at an index of
\* SIGV4_MAX_QUERY_PAIR_COUNT or more, and the header pairs it has stored are
\* those of the indices below SIGV4_MAX_HTTP_HEADER_COUNT, whatever the
\* request, one with more pairs than the maximum included.
C30_PairsInsideArrays ==
    (pc \notin { "encode", "hmac", "sort", "sorting" }) =>
      /\ "pair_oob" \notin mem.ev
      /\ mem.nHdr <= SIGV4_MAX_HTTP_HEADER_COUNT

====
